---- MODULE Spec2Model ----
(***************************************************************************)
(* A model of pysndlib.py, the sound-synthesis library of pysoundanalyser. *)
(*                                                                         *)
(* A Signal is a sequence of rows <<left, right>> (numpy column 0 is the   *)
(* Left channel, column 1 the Right channel); row k of the model is the    *)
(* row with Python index k-1.                                              *)
(*                                                                         *)
(* Numbers.  Times are integer milliseconds, frequencies and sampling      *)
(* rates integer hertz, levels integer dB; a phase is a pair <<n, d>>      *)
(* standing for n*pi/d radians.  Real values are kept as integers in fixed *)
(* units: a cosine or sine in hundredths, a raised-cosine window in        *)
(* two-hundredths (200 is the window value 1), an amplitude                *)
(* 10^(dB/20) in hundredths.  A sample written by a generator is the       *)
(* product amplitude * window * carrier of these integers, so sums and     *)
(* products of samples are exact.                                          *)
(***************************************************************************)
EXTENDS Integers, Sequences, FiniteSets, TLC

VARIABLES
    op,     \* name of the library function called last ("none" at start)
    args,   \* tuple of the scalar arguments of that call, in signature order
    inp,    \* the Signals passed to the call, as they were before it
    mem,    \* the same Signal objects as the caller sees them after it
    ret,    \* outcome <<err, snd>>: err is "none" or an exception name
    warned, \* the warnings the call handed to warnings.warn
    ppc,    \* complexToneParallel: position of the calling process
    pargs,  \* complexToneParallel: its arguments
    queue,  \* complexToneParallel: tasks submitted to the pool, not yet run
    tn,     \* complexToneParallel: results appended by the callback
    psnd    \* complexToneParallel: the accumulated sum / returned Signal

vars == <<op, args, inp, mem, ret, warned, ppc, pargs, queue, tn, psnd>>
callVars == <<op, args, inp, mem, ret, warned>>
parVars == <<ppc, pargs, queue, tn, psnd>>

----------------------------------------------------------------------------
(* Bounds of the explored inputs.                                          *)

MaxDur == 5         \* longest duration / delay / ISI in milliseconds
MaxRampMs == 3      \* longest ramp in milliseconds
MaxLen == 3         \* longest Signal handed to a transform or compositor
MaxHarm == 3        \* highest harmonic number of a complex tone

FsSet == {500, 1000}            \* sampling rates: 1 ms is 0.5 or 1 sample
FreqSet == {125, 250}           \* tone frequencies in hertz
LevelSet == {80, 100}           \* levels in dB SPL
MaxLevelSet == {100}            \* level of a sinusoid of amplitude 1
PhaseSet == {<<0, 1>>, <<1, 2>>}
ChannelSet == {"Right", "Left", "Both", "Odd Left", "Odd Right", "Mono"}
LRB == {"Right", "Left", "Both"}
DurSet == 0..MaxDur
RampSet == 0..MaxRampMs

----------------------------------------------------------------------------
(* Arithmetic helpers.                                                     *)

Abs(x) == IF x < 0 THEN -x ELSE x

Max(a, b) == IF a >= b THEN a ELSE b

Min(a, b) == IF a <= b THEN a ELSE b

RECURSIVE GCD(_, _)
GCD(a, b) == IF b = 0 THEN a ELSE GCD(b, a % b)

\* Python 3 round() of the rational num/den (den > 0): nearest integer,
\* ties to the even one.
Round(num, den) ==
    LET fl == num \div den
        r == num - fl * den
    IN  IF 2 * r < den THEN fl
        ELSE IF 2 * r > den THEN fl + 1
        ELSE IF fl % 2 = 0 THEN fl ELSE fl + 1

\* cos(pi*t/n) in hundredths for 0 <= 2t <= n (Bhaskara's rational form,
\* exact at 0, pi/3 and pi/2).
CosFirstQuadrant(t, n) == (100 * (n * n - 4 * t * t)) \div (n * n + t * t)

\* numpy.cos(pi*p/q) in hundredths, for any integer p and q > 0.  The angle
\* is reduced to [0, pi]; a fraction finer than a thousandth of pi is cut
\* to thousandths.
CosPi(p, q) ==
    LET g == GCD(Abs(p), q)
        pp == p \div g
        qq == q \div g
        r == pp % (2 * qq)
        f0 == IF r > qq THEN 2 * qq - r ELSE r
        n == IF qq > 1000 THEN 1000 ELSE qq
        f == IF qq > 1000 THEN (f0 * 1000) \div qq ELSE f0
    IN  IF 2 * f <= n THEN CosFirstQuadrant(f, n)
        ELSE -CosFirstQuadrant(n - f, n)

\* numpy.sin(pi*p/q) in hundredths: sin(x) = cos(x - pi/2).
SinPi(p, q) ==
    LET g == GCD(Abs(p), q)
    IN  CosPi(2 * (p \div g) - (q \div g), 2 * (q \div g))

\* sin(2*pi*frequency*(k/fs) + phase) in hundredths, phase = <<n, d>>.
SinAt(frequency, k, fs, phase) ==
    SinPi(2 * frequency * k * phase[2] + phase[1] * fs, fs * phase[2])

\* cos(2*pi*frequency*(k/fs) + phase) in hundredths.
CosAt(frequency, k, fs, phase) ==
    CosPi(2 * frequency * k * phase[2] + phase[1] * fs, fs * phase[2])

RECURSIVE Pow10(_)
Pow10(e) == IF e <= 0 THEN 1 ELSE 10 * Pow10(e - 1)

\* 10**(dB/20) in hundredths, for dB a multiple of 20 not below -40.
AmpOfDb(dB) == Pow10((dB + 40) \div 20)

\* 2**(num/den) in hundredths, den > 0: exact at integer exponents and
\* linear between them.
RECURSIVE Pow2(_, _)
Pow2(num, den) ==
    IF num >= den THEN 2 * Pow2(num - den, den)
    ELSE IF num < 0 THEN Pow2(num + den, den) \div 2
    ELSE 100 + (100 * num) \div den

\* floor(sqrt(n)) for n >= 0, by Newton's iteration from above.
RECURSIVE IsqrtFrom(_, _)
IsqrtFrom(n, r) ==
    LET next == (r + (n \div r)) \div 2
    IN  IF next >= r THEN r ELSE IsqrtFrom(n, next)

Isqrt(n) == IF n = 0 THEN 0 ELSE IsqrtFrom(n, n)

\* sum of f[i] for i in lo..hi
RECURSIVE SumOver(_, _, _)
SumOver(lo, hi, f) ==
    IF lo > hi THEN 0
    ELSE IF lo = hi THEN f[lo]
    ELSE LET mid == (lo + hi) \div 2
         IN  SumOver(lo, mid, f) + SumOver(mid + 1, hi, f)

\* int(round(ms/1000 * fs)): a duration in milliseconds as a sample count.
msToSamples(ms, fs) == Round(ms * fs, 1000)

----------------------------------------------------------------------------
(* Arrays.                                                                 *)

\* numpy.array(f): the array that holds the values of f, each computed once.
array(f) == f \o <<>>

\* numpy.zeros((n, 2))
zeros(n) == [k \in 1..n |-> <<0, 0>>]

\* snd[lo:hi, col] = vals  (col is 1 for numpy column 0, 2 for column 1)
SliceAssign(snd, lo, hi, col, vals) ==
    [k \in 1..Len(snd) |->
        IF lo < k /\ k <= hi THEN [snd[k] EXCEPT ![col] = vals[k - lo]]
        ELSE snd[k]]

\* snd[:, dst] = snd[:, src]
CopyColumn(snd, src, dst) ==
    [k \in 1..Len(snd) |-> [snd[k] EXCEPT ![dst] = snd[k][src]]]

\* snd[:, col]
Column(snd, col) == [k \in 1..Len(snd) |-> snd[k][col]]

\* numpy.concatenate((a, b), axis=0)
concatenate(a, b) == a \o b

\* a[lo:hi] for 0 <= lo, hi (Python slice, clipped to the array)
Slice(a, lo, hi) ==
    LET h == Min(hi, Len(a))
    IN  IF lo >= h THEN <<>> ELSE [k \in 1..(h - lo) |-> a[lo + k]]

\* elementwise a + b of two arrays of the same shape
AddRows(a, b) == [k \in 1..Len(a) |-> <<a[k][1] + b[k][1], a[k][2] + b[k][2]>>]

IsZeroColumn(snd, col) == \A k \in 1..Len(snd) : snd[k][col] = 0

\* A call that returns snd, and a call that ends in the exception e.
Ok(snd) == <<"none", snd>>

Raise(e) == <<e, <<>> >>

Err(r) == r[1]

Snd(r) == r[2]

----------------------------------------------------------------------------
(* The raised-cosine onset and offset windows, in two-hundredths.          *)

\* (1 - cos(pi * timeRamp/nRamp))/2 for timeRamp = arange(0, nRamp)
onsetWindow(nRamp) == [t \in 1..nRamp |-> 100 - CosPi(t - 1, nRamp)]

\* (1 + cos(pi * timeRamp/nRamp))/2
offsetWindow(nRamp) == [t \in 1..nRamp |-> 100 + CosPi(t - 1, nRamp)]

\* The three slice assignments every generator makes into one column:
\*   snd[0:nRamp, c]                = amp * onset  * carrier[0:nRamp]
\*   snd[nRamp:nRamp+nSamples, c]   = amp * carrier[nRamp:nRamp+nSamples]
\*   snd[nRamp+nSamples:nTot, c]    = amp * offset * carrier[nRamp+nSamples:]
\* carrier is a sequence of nTot values.
WriteRamped(snd, col, amp, nRamp, nSamples, carrier) ==
    LET nTot == Len(carrier)
        s1 == SliceAssign(snd, 0, nRamp, col,
                [t \in 1..nRamp |-> amp * onsetWindow(nRamp)[t] * carrier[t]])
        s2 == SliceAssign(s1, nRamp, nRamp + nSamples, col,
                [j \in 1..nSamples |-> amp * 200 * carrier[nRamp + j]])
    IN  SliceAssign(s2, nRamp + nSamples, nTot, col,
                [t \in 1..nRamp |->
                    amp * offsetWindow(nRamp)[t] * carrier[nRamp + nSamples + t]])

----------------------------------------------------------------------------
(* Elementary generators.                                                  *)

\* nTot counting one ramp only.
nTotOf_OneRamp(nSamples, nRamp) == nSamples + nRamp

\* nTot = nSamples + (nRamp * 2)
nTotOf(nSamples, nRamp) == nSamples + (nRamp * 2)

\* 'Both' filling the Left column only.
WriteChannel_NoCopy(snd, channel, amp, nRamp, nSamples, carrier) ==
    IF channel = "Right" THEN WriteRamped(snd, 2, amp, nRamp, nSamples, carrier)
    ELSE IF channel \in {"Left", "Both"}
    THEN WriteRamped(snd, 1, amp, nRamp, nSamples, carrier)
    ELSE snd

\* The if/elif chain on channel that ends every generator taking 'Right',
\* 'Left' or 'Both': one column is written, 'Both' copies or repeats it,
\* and any other value falls through, leaving snd as zeros.
WriteChannel(snd, channel, amp, nRamp, nSamples, carrier) ==
    IF channel = "Right"
    THEN WriteRamped(snd, 2, amp, nRamp, nSamples, carrier)
    ELSE IF channel = "Left"
    THEN WriteRamped(snd, 1, amp, nRamp, nSamples, carrier)
    ELSE IF channel = "Both"
    THEN CopyColumn(WriteRamped(snd, 1, amp, nRamp, nSamples, carrier), 1, 2)
    ELSE snd

pureTone(frequency, phase, level, duration, ramp, channel, fs, maxLevel) ==
    IF channel \notin {"Right", "Left", "Both"} THEN Raise("TypeError")
    ELSE
    LET amp == AmpOfDb(level - maxLevel)
        nSamples == msToSamples(duration, fs)
        nRamp == msToSamples(ramp, fs)
        nTot == nTotOf(nSamples, nRamp)
        carrier == [k \in 1..nTot |-> SinAt(frequency, k - 1, fs, phase)]
    IN  Ok(WriteChannel(zeros(nTot), channel, amp, nRamp, nSamples, carrier))

\* The carrier is (1 + AMDepth*sin(2*pi*AMFreq*t)) * sin(2*pi*frequency*t + phase),
\* in ten-thousandths.  No check of channel is made.
AMTone(frequency, AMFreq, AMDepth, phase, level, duration, ramp, channel, fs, maxLevel) ==
    LET amp == AmpOfDb(level - maxLevel)
        nSamples == msToSamples(duration, fs)
        nRamp == msToSamples(ramp, fs)
        nTot == nTotOf(nSamples, nRamp)
        carrier == [k \in 1..nTot |->
                      (100 + AMDepth * SinAt(AMFreq, k - 1, fs, <<0, 1>>))
                        * SinAt(frequency, k - 1, fs, phase)]
    IN  Ok(WriteChannel(zeros(nTot), channel, amp, nRamp, nSamples, carrier))

\* The first statement of each of the three channel branches reads the
\* name fctimeAll, which is bound nowhere: the branch ends in NameError
\* before anything is written.  Another channel value runs no branch.
FMTone(fc, fm, mi, phase, level, duration, ramp, channel, fs, maxLevel) ==
    LET nSamples == msToSamples(duration, fs)
        nRamp == msToSamples(ramp, fs)
        nTot == nTotOf(nSamples, nRamp)
    IN  IF channel \in {"Right", "Left", "Both"} THEN Raise("NameError")
        ELSE Ok(zeros(nTot))

\* A phase <<n, d>> plus a phase <<m, e>>.
PhaseAdd(p, q) == <<p[1] * q[2] + q[1] * p[2], p[2] * q[2]>>

\* ipd = (itd / (1.0/freq)) * 2 * pi, for itd in microseconds as passed by
\* binauralPureTone (itd/1000000): the phase <<2*itd*freq, 1000000>>.
itdtoipd(itdMicro, freq) ==
    LET n == 2 * itdMicro * freq
        g == GCD(Abs(n), 1000000)
    IN  <<n \div g, 1000000 \div g>>

binauralPhases_Swapped(phase, ipd, itdRef) ==
    IF itdRef = "Right" THEN <<phase, PhaseAdd(phase, ipd)>>
    ELSE IF itdRef = "Left" THEN <<PhaseAdd(phase, ipd), phase>>
    ELSE <<phase, phase>>

\* <<phaseLeft, phaseRight>> of binauralPureTone with channel 'Both': the
\* ear that is not the reference gets phase + ipd.
binauralPhases(phase, ipd, itdRef) ==
    IF itdRef = "Right" THEN <<PhaseAdd(phase, ipd), phase>>
    ELSE IF itdRef = "Left" THEN <<phase, PhaseAdd(phase, ipd)>>
    ELSE <<phase, phase>>

\* <<ampLeft, ampRight>> of binauralPureTone with channel 'Both': the ear
\* that is not the reference gets the level level + ild.
binauralAmps(level, ild, ildRef, maxLevel) ==
    IF ildRef = "Right"
    THEN <<AmpOfDb(level + ild - maxLevel), AmpOfDb(level - maxLevel)>>
    ELSE IF ildRef = "Left"
    THEN <<AmpOfDb(level - maxLevel), AmpOfDb(level + ild - maxLevel)>>
    ELSE <<AmpOfDb(level - maxLevel), AmpOfDb(level - maxLevel)>>

binauralPureToneWarnings_Silent(channel, itd, itdRef, ild, ildRef) == {}

\* The warnings of binauralPureTone, given once the three selectors have
\* passed their checks: a difference asked for without its reference.
binauralPureToneWarnings(channel, itd, itdRef, ild, ildRef) ==
    IF \/ channel \notin {"Right", "Left", "Both"}
       \/ itdRef \notin {"Right", "Left", "None"}
       \/ ildRef \notin {"Right", "Left", "None"}
    THEN {}
    ELSE (IF itd # 0 /\ itdRef = "None" THEN {"itd"} ELSE {})
           \cup (IF ild # 0 /\ ildRef = "None" THEN {"ild"} ELSE {})

\* itdRef and ildRef are "Right", "Left" or "None" (Python None).
binauralPureTone(frequency, phase, level, duration, ramp, channel, itd, itdRef, ild, ildRef, fs, maxLevel) ==
    IF channel \notin {"Right", "Left", "Both"} THEN Raise("TypeError")
    ELSE IF itdRef \notin {"Right", "Left", "None"} THEN Raise("TypeError")
    ELSE IF ildRef \notin {"Right", "Left", "None"} THEN Raise("TypeError")
    ELSE
    LET ipd == itdtoipd(itd, frequency)
        ampLeft == binauralAmps(level, ild, ildRef, maxLevel)[1]
        ampRight == binauralAmps(level, ild, ildRef, maxLevel)[2]
        phaseLeft == binauralPhases(phase, ipd, itdRef)[1]
        phaseRight == binauralPhases(phase, ipd, itdRef)[2]
        amp == AmpOfDb(level - maxLevel)
        nSamples == msToSamples(duration, fs)
        nRamp == msToSamples(ramp, fs)
        nTot == nTotOf(nSamples, nRamp)
        tone(ph) == [k \in 1..nTot |-> SinAt(frequency, k - 1, fs, ph)]
        snd == zeros(nTot)
    IN  IF channel = "Right"
        THEN Ok(WriteRamped(snd, 2, amp, nRamp, nSamples, tone(phase)))
        ELSE IF channel = "Left"
        THEN Ok(WriteRamped(snd, 1, amp, nRamp, nSamples, tone(phase)))
        ELSE Ok(WriteRamped(
                  WriteRamped(snd, 1, ampLeft, nRamp, nSamples, tone(phaseLeft)),
                  2, ampRight, nRamp, nSamples, tone(phaseRight)))

\* The sample value nan (0/0 in numpy floating point).
NaN == "nan"

\* The random source.  A call that draws random numbers takes the state of
\* numpy.random as an extra argument 'seed'; the draws are functions of it.

\* One draw of the noise sample k, in hundredths (never exactly 0).
NoiseDraw(seed, k) ==
    LET v == (seed * 7 + k * 13) % 4
    IN  (IF v < 2 THEN v - 2 ELSE v - 1) * 40

\* One draw of numpy.random.random()*2*pi for component j: a phase.
PhaseDraw(seed, j) == <<(seed + 3 * j) % 4, 2>>

\* The instantaneous frequency is 2*pi*fc*2**((deltaCents/1200)*cos(2*pi*fm*t+phase)),
\* its running sum over the samples divided by fs is the angle.
expSinFMTone(fc, fm, deltaCents, phase, level, duration, ramp, channel, fs, maxLevel) ==
    LET amp == AmpOfDb(level - maxLevel)
        nSamples == msToSamples(duration, fs)
        nRamp == msToSamples(ramp, fs)
        nTot == nTotOf(nSamples, nRamp)
        fArr == [k \in 1..nTot |->
                   Pow2(deltaCents * CosAt(fm, k - 1, fs, phase), 120000)]
        ang(k) == SumOver(1, k, fArr)
        carrier == [k \in 1..nTot |-> SinPi(fc * ang(k), 50 * fs)]
    IN  Ok(WriteChannel(zeros(nTot), channel, amp, nRamp, nSamples, carrier))

\* rate is the rational <<n, d>> hertz/s or cents/s, phase the rational
\* <<n, d>> added to the running number of cycles.
\* linear:      frequency = freqStart*t + (rate/2)*t**2 + phase
\* exponential: frequency = freqStart*((k**t - 1)/log(k) + phase), k = 2**(rate/1200),
\*              taken to second order in t: t + log(k)*t**2/2, log(2) = 0.693;
\*              with rate 0 it is 0/0, nan at every sample.
\* Any other ftype leaves 'frequency' unbound: the channel branch that
\* reads it ends in NameError.
chirp(freqStart, ftype, rate, level, duration, phase, ramp, channel, fs, maxLevel) ==
    LET amp == AmpOfDb(level - maxLevel)
        nSamples == msToSamples(duration, fs)
        nRamp == msToSamples(ramp, fs)
        nTot == nTotOf(nSamples, nRamp)
        linear(k) ==
            SinPi(2 * freqStart * k * fs * rate[2] * phase[2]
                    + rate[1] * k * k * phase[2]
                    + 2 * phase[1] * rate[2] * fs * fs,
                  rate[2] * fs * fs * phase[2])
        exponential(k) ==
            SinPi((2000 * freqStart * k) \div fs
                    + ((((((rate[1] * k * k) \div (rate[2] * fs)) * 231) \div 400)
                          * freqStart) \div fs)
                    + (2000 * freqStart * phase[1]) \div phase[2],
                  1000)
        carrier == [k \in 1..nTot |->
                      IF ftype = "linear" THEN linear(k - 1) ELSE exponential(k - 1)]
        nans == [k \in 1..nTot |->
                   IF channel = "Right" THEN <<0, NaN>>
                   ELSE IF channel = "Left" THEN <<NaN, 0>>
                   ELSE IF channel = "Both" THEN <<NaN, NaN>>
                   ELSE <<0, 0>>]
    IN  IF ftype \notin {"linear", "exponential"}
        THEN IF channel \in {"Right", "Left", "Both"} THEN Raise("NameError")
             ELSE Ok(zeros(nTot))
        ELSE IF ftype = "exponential" /\ rate[1] = 0 THEN Ok(nans)
        ELSE Ok(WriteChannel(zeros(nTot), channel, amp, nRamp, nSamples, carrier))

\* rate = excursion / totDur, totDur = duration/1000 + ramp/1000*2 seconds.
glide(freqStart, ftype, excursion, level, duration, phase, ramp, channel, fs, maxLevel) ==
    IF duration + ramp * 2 = 0 THEN Raise("ZeroDivisionError")
    ELSE chirp(freqStart, ftype, <<excursion * 1000, duration + ramp * 2>>,
               level, duration, phase, ramp, channel, fs, maxLevel)

\* The starting phase complexTone gives harmonic i, as the phase of a sine
\* (cos(x) is sin(x + pi/2)); rnd[i] is the random draw made for harmonic i.
complexTonePhase(harmPhase, i, highHarm, rnd) ==
    IF harmPhase = "Sine" THEN <<0, 1>>
    ELSE IF harmPhase = "Cosine" THEN <<1, 2>>
    ELSE IF harmPhase = "Alternating"
    THEN IF i % 2 > 0 THEN <<1, 2>> ELSE <<0, 1>>
    ELSE IF harmPhase = "Schroeder" THEN <<-(i * (i - 1)), highHarm>>
    ELSE rnd[i]

complexToneTarget_Swapped(channel, i) ==
    IF channel \in {"Right", "Left", "Both"} THEN "tone"
    ELSE IF channel \in {"Odd Left", "Odd Right"}
    THEN IF i % 2 > 0 THEN "toneEven" ELSE "toneOdd"
    ELSE "none"

\* The array complexTone adds harmonic i to: "tone" for one or both
\* channels, "toneOdd" or "toneEven" for the odd/even channel modes, "none"
\* when the channel value is not recognised.
complexToneTarget(channel, i) ==
    IF channel \in {"Right", "Left", "Both"} THEN "tone"
    ELSE IF channel \in {"Odd Left", "Odd Right"}
    THEN IF i % 2 > 0 THEN "toneOdd" ELSE "toneEven"
    ELSE "none"

\* rnd is the function from harmonic number to the phase drawn for it in
\* the 'Random' mode.
complexTone(F0, harmPhase, lowHarm, highHarm, stretch, level, duration, ramp, channel, fs, maxLevel, rnd) ==
    LET amp == AmpOfDb(level - maxLevel)
        stretchHz == (F0 * stretch) \div 100
        nSamples == msToSamples(duration, fs)
        nRamp == msToSamples(ramp, fs)
        nTot == nTotOf(nSamples, nRamp)
        known == harmPhase \in {"Sine", "Cosine", "Alternating", "Schroeder", "Random"}
        partial(i, k) ==
            SinAt((F0 * i) + stretchHz, k - 1, fs,
                  complexTonePhase(harmPhase, i, highHarm, rnd))
        sumInto(target) ==
            [k \in 1..nTot |->
                SumOver(lowHarm, highHarm,
                    [i \in lowHarm..highHarm |->
                        IF known /\ complexToneTarget(channel, i) = target
                        THEN partial(i, k) ELSE 0])]
        tone == sumInto("tone")
        toneOdd == sumInto("toneOdd")
        toneEven == sumInto("toneEven")
        snd == zeros(nTot)
    IN  IF channel \in {"Right", "Left", "Both"}
        THEN Ok(WriteChannel(snd, channel, amp, nRamp, nSamples, tone))
        ELSE IF channel = "Odd Left"
        THEN Ok(WriteRamped(WriteRamped(snd, 1, amp, nRamp, nSamples, toneOdd),
                            2, amp, nRamp, nSamples, toneEven))
        ELSE IF channel = "Odd Right"
        THEN Ok(WriteRamped(WriteRamped(snd, 2, amp, nRamp, nSamples, toneOdd),
                            1, amp, nRamp, nSamples, toneEven))
        ELSE Ok(snd)

\* noise is the sum of two uniform draws minus the sum of two others; it is
\* divided by RMS*sqrt(2) (sqrt(2) = 1.41) and scaled by
\* amp = sqrt(fs/2) * 10**((spectrumLevel - maxLevel)/20).
broadbandNoise(spectrumLevel, duration, ramp, channel, fs, maxLevel, seed) ==
    LET amp == Isqrt(fs \div 2) * AmpOfDb(spectrumLevel - maxLevel)
        nSamples == msToSamples(duration, fs)
        nRamp == msToSamples(ramp, fs)
        nTot == nTotOf(nSamples, nRamp)
        noise(k) == NoiseDraw(seed, k)
        RMS == Isqrt(SumOver(1, nTot, [k \in 1..nTot |-> noise(k) * noise(k)]) \div nTot)
        scaled_noise == [k \in 1..nTot |-> (noise(k) * 100) \div ((RMS * 141) \div 100)]
    IN  Ok(WriteChannel(zeros(nTot), channel, amp, nRamp, nSamples, scaled_noise))

\* The number of frequencies in arange(frequency1, frequency2+spacing, spacing)
\* with spacing = 1/totDur = 1000/totMs hertz: ceil((stop - start)/step).
steepNoiseLoopCount(frequency1, frequency2, totMs) ==
    Max(0, -((-((frequency2 - frequency1) * totMs + 1000)) \div 1000))

\* components = 1 + floor((frequency2 - frequency1) / spacing)
steepNoiseComponents(frequency1, frequency2, totMs) ==
    1 + ((frequency2 - frequency1) * totMs) \div 1000

steepNoise(frequency1, frequency2, level, duration, ramp, channel, fs, maxLevel, seed) ==
    LET totMs == duration + (2 * ramp)
        nSamples == msToSamples(duration, fs)
        nRamp == msToSamples(ramp, fs)
        nTot == nTotOf(nSamples, nRamp)
        components == steepNoiseComponents(frequency1, frequency2, totMs)
        amp == AmpOfDb(level - maxLevel)
                 * Isqrt((frequency2 - frequency1) \div components)
        nLoop == steepNoiseLoopCount(frequency1, frequency2, totMs)
        \* sin(phase + 2*pi*f*t) for f = frequency1 + j*spacing
        term(j, k) ==
            LET ph == PhaseDraw(seed, j)
            IN  SinPi(ph[1] * totMs * fs
                        + 2 * ph[2] * (frequency1 * totMs + 1000 * j) * k,
                      ph[2] * totMs * fs)
        noise == [k \in 1..nTot |->
                    SumOver(0, nLoop - 1, [j \in 0..(nLoop - 1) |-> term(j, k - 1)])]
    IN  IF totMs = 0 THEN Raise("ZeroDivisionError")
        ELSE Ok(WriteChannel(zeros(nTot), channel, amp, nRamp, nSamples, noise))

\* The array harmComplFromNarrowbandNoise adds the noise band of harmonic i
\* to: "tone", "toneOdd" or "toneEven", "none" for an unrecognised channel.
harmComplTarget(channel, i) ==
    IF channel \in {"Right", "Left", "Both"} THEN "tone"
    ELSE IF channel \in {"Odd Left", "Odd Right"}
    THEN IF i % 2 > 0 THEN "toneOdd" ELSE "toneEven"
    ELSE "none"

\* The noise band of harmonic i: steepNoise from i*F0 - bandwidth/2 to
\* i*F0 + bandwidth/2, in the channel asked for or, for the odd/even modes,
\* in the Left one.  Each band has its own random draws.
harmComplBand(i, F0, level, bandwidth, duration, ramp, channel, fs, maxLevel, seed) ==
    steepNoise((i * F0) - (bandwidth \div 2), (i * F0) + (bandwidth \div 2),
               level, duration, ramp,
               IF channel \in {"Right", "Left", "Both"} THEN channel ELSE "Left",
               fs, maxLevel, seed + i)

\* The bands of the harmonics lowHarm..highHarm are summed into tone, or
\* into toneOdd and toneEven whose Left columns are then moved to the two
\* columns of snd.  An error of steepNoise ends the call.
harmComplFromNarrowbandNoise(F0, lowHarm, highHarm, level, bandwidth, duration, ramp, channel, fs, maxLevel, seed) ==
    LET nSamples == msToSamples(duration, fs)
        nRamp == msToSamples(ramp, fs)
        nTot == nTotOf(nSamples, nRamp)
        band(i) == harmComplBand(i, F0, level, bandwidth, duration, ramp,
                                 channel, fs, maxLevel, seed)
        called == {i \in lowHarm..highHarm : harmComplTarget(channel, i) # "none"}
        sumInto(target) ==
            [k \in 1..nTot |->
                <<SumOver(lowHarm, highHarm,
                     [i \in lowHarm..highHarm |->
                        IF harmComplTarget(channel, i) = target
                        THEN Snd(band(i))[k][1] ELSE 0]),
                  SumOver(lowHarm, highHarm,
                     [i \in lowHarm..highHarm |->
                        IF harmComplTarget(channel, i) = target
                        THEN Snd(band(i))[k][2] ELSE 0])>>]
        tone == sumInto("tone")
        toneOdd == sumInto("toneOdd")
        toneEven == sumInto("toneEven")
    IN  IF \E i \in called : Err(band(i)) # "none"
        THEN Raise(Err(band(CHOOSE i \in called : Err(band(i)) # "none")))
        ELSE IF channel \in {"Right", "Left", "Both"} THEN Ok(tone)
        ELSE IF channel = "Odd Left"
        THEN Ok([k \in 1..nTot |-> <<toneOdd[k][1], toneEven[k][1]>>])
        ELSE IF channel = "Odd Right"
        THEN Ok([k \in 1..nTot |-> <<toneEven[k][1], toneOdd[k][1]>>])
        ELSE Ok(zeros(nTot))

\* sig[k] * window, both in their fixed units: the product in the unit of sig.
Windowed(x, w) == (x * w) \div 200

\* The four ramp statements of gate on the array sig: the result is
\* <<err, sig>> with sig the array after the call.
\* A window longer than the slice it multiplies cannot be broadcast
\* (ValueError, raised by the first statement), except a window of one
\* sample over an empty slice.
gateRamps(nRamp, sig) ==
    LET nTot == Len(sig)
        nStartSecondRamp == nTot - nRamp
        s1 == [k \in 1..nTot |->
                 IF k <= nRamp
                 THEN <<Windowed(sig[k][1], onsetWindow(nRamp)[k]),
                        Windowed(sig[k][2], onsetWindow(nRamp)[k])>>
                 ELSE sig[k]]
        s2 == [k \in 1..nTot |->
                 IF k > nStartSecondRamp
                 THEN <<Windowed(s1[k][1], offsetWindow(nRamp)[k - nStartSecondRamp]),
                        Windowed(s1[k][2], offsetWindow(nRamp)[k - nStartSecondRamp])>>
                 ELSE s1[k]]
    IN  IF nRamp > nTot /\ ~(nRamp = 1 /\ nTot = 0) THEN <<"ValueError", sig>>
        ELSE IF nRamp > nTot THEN <<"none", sig>>
        ELSE <<"none", s2>>

\* nRamp rounded up instead of to the nearest integer.
gate_Ceil(ramps, sig, fs) == gateRamps(-((-(ramps * fs)) \div 1000), sig)

\* gate works on the caller's array and returns that same array.
\* nRamp = int(round(ramps/1000 * fs))
gate(ramps, sig, fs) == gateRamps(msToSamples(ramps, fs), sig)

\* 1200*log2(high/low) in cents for high >= low > 0: exact at whole
\* octaves, linear within an octave.
RECURSIVE Log2Cents(_, _)
Log2Cents(high, low) ==
    IF high >= 2 * low THEN 1200 + Log2Cents(high, 2 * low)
    ELSE (1200 * (high - low)) \div low

\* freqs[i] = freqs[i-1]*(2**(spacing/1200.)), freqs[0] = lowCmp
RECURSIVE pinkFreq(_, _, _)
pinkFreq(i, lowCmp, spacing) ==
    IF i = 0 THEN lowCmp
    ELSE (pinkFreq(i - 1, lowCmp, spacing) * Pow2(spacing, 1200)) \div 100

\* With no component the assignment freqs[0] = lowCmp indexes an empty
\* array (IndexError).
pinkNoiseFromSin(compLevel, lowCmp, highCmp, spacing, duration, ramp, channel, fs, maxLevel, seed) ==
    LET nSamples == msToSamples(duration, fs)
        nRamp == msToSamples(ramp, fs)
        nTot == nTotOf(nSamples, nRamp)
        noisBandwidth == Log2Cents(highCmp, lowCmp)
        nComponents == noisBandwidth \div spacing
        amp == AmpOfDb(compLevel - maxLevel)
        total == [k \in 1..nTot |->
                    SumOver(0, nComponents - 1,
                        [i \in 0..(nComponents - 1) |->
                            amp * SinAt(pinkFreq(i, lowCmp, spacing), k - 1,
                                        fs, PhaseDraw(seed, i))])]
        snd == IF channel = "Right" THEN [k \in 1..nTot |-> <<0, total[k]>>]
               ELSE IF channel = "Left" THEN [k \in 1..nTot |-> <<total[k], 0>>]
               ELSE IF channel = "Both" THEN [k \in 1..nTot |-> <<total[k], total[k]>>]
               ELSE zeros(nTot)
    IN  IF nComponents = 0 THEN Raise("IndexError")
        ELSE gate(ramp, snd, fs)

\* numpy.where(condition)[0]: the indices of the set S, ascending.
RECURSIVE where(_)
where(S) ==
    IF S = {} THEN <<>>
    ELSE LET first == CHOOSE x \in S : \A y \in S : x <= y
         IN  <<first>> \o where(S \ {first})

\* thisFreqsToShift of the turn i of makeSimpleDichotic: the indices of the
\* components inside the band of harmonic i ('NoSpi'), or between the band
\* before and this band, with those above the band of highHarm in the last
\* turn ('NpiSo').  Frequencies and band edges are compared in hundredths
\* of a hertz.
dichoticThisFreqsToShift(i, F0, highHarm, lowFreq, spacing, nComponents, sigBandwidth, phaseRelationship) ==
    LET thisFreq == F0 * i
        prevFreq == F0 * (i - 1)
        lo == thisFreq * Pow2(-(sigBandwidth \div 2), 1200)
        hi == thisFreq * Pow2(sigBandwidth \div 2, 1200)
        hiPrev == prevFreq * Pow2(sigBandwidth \div 2, 1200)
        freqs == [j \in 0..(nComponents - 1) |-> 100 * pinkFreq(j, lowFreq, spacing)]
    IN  IF phaseRelationship = "NoSpi"
        THEN where({j \in DOMAIN freqs : freqs[j] > lo /\ freqs[j] < hi})
        ELSE IF phaseRelationship = "NpiSo"
        THEN (IF i = 0
              THEN where({j \in DOMAIN freqs :
                             freqs[j] > 100 * lowFreq /\ freqs[j] < lo})
              ELSE where({j \in DOMAIN freqs : freqs[j] > hiPrev /\ freqs[j] < lo}))
             \o (IF i = highHarm
                 THEN where({j \in DOMAIN freqs : freqs[j] > hi})
                 ELSE <<>>)
        ELSE <<>>

\* freqsToShift after the turns i..highHarm of the loop over the harmonics.
RECURSIVE dichoticFreqsToShift(_, _, _, _, _, _, _, _)
dichoticFreqsToShift(i, F0, highHarm, lowFreq, spacing, nComponents, sigBandwidth, phaseRelationship) ==
    IF i > highHarm THEN <<>>
    ELSE dichoticThisFreqsToShift(i, F0, highHarm, lowFreq, spacing, nComponents,
                                  sigBandwidth, phaseRelationship)
           \o dichoticFreqsToShift(i + 1, F0, highHarm, lowFreq, spacing,
                                   nComponents, sigBandwidth, phaseRelationship)

\* sinArrayLeft[r, k] when the columns are summed: the rows of the indices
\* in freqsToShift have been written again with the phase moved by ipd, by
\* the phase of the itd at the frequency of the row, or with the amplitude
\* amp2; the others are the copies of the rows of sinArray.
sinArrayLeft(r, k, selected, dichoticDifference, amp, amp2, freq, phasesR, ipd, itd, fs) ==
    IF r \notin selected THEN amp * SinAt(freq, k, fs, phasesR)
    ELSE IF dichoticDifference = "IPD"
    THEN amp * SinAt(freq, k, fs, PhaseAdd(phasesR, ipd))
    ELSE IF dichoticDifference = "ITD"
    THEN amp * SinAt(freq, k, fs, PhaseAdd(phasesR, itdtoipd(itd, freq)))
    ELSE IF dichoticDifference = "Level"
    THEN amp2 * SinAt(freq, k, fs, phasesR)
    ELSE amp * SinAt(freq, k, fs, phasesR)

\* sinArrayLeft is sinArray itself and not a copy of it.
sinArray_Aliased(r, k, selected, dichoticDifference, amp, amp2, freq, phasesR, ipd, itd, fs) ==
    sinArrayLeft(r, k, selected, dichoticDifference, amp, amp2, freq, phasesR,
                 ipd, itd, fs)

\* sinArray[r, k] when the columns are summed: amp*sin(2*pi*freqs[r]*timeAll
\* + phasesR[r]), but with 'Level' sinArray = sinArrayLeft has been made.
sinArray(r, k, selected, dichoticDifference, amp, amp2, freq, phasesR, ipd, itd, fs) ==
    IF dichoticDifference = "Level"
    THEN sinArrayLeft(r, k, selected, dichoticDifference, amp, amp2, freq,
                      phasesR, ipd, itd, fs)
    ELSE amp * SinAt(freq, k, fs, phasesR)

\* freqsToShift is built by numpy.append from an empty list and is an array
\* of floats: sinArrayLeft[freqsToShift[i],] is an IndexError where numpy
\* refuses a float as an index and the row of the truncated index where it
\* accepts one; floatIndex says which.  phasesR[r] is PhaseDraw(seed, r).
\* With no component the assignment freqs[0] = lowFreq indexes an empty
\* array.  snd[:,0] is the sum of sinArray and snd[:,1] that of
\* sinArrayLeft; snd is gated.
makeSimpleDichotic(F0, lowHarm, highHarm, cmpLevel, lowFreq, highFreq, spacing, sigBandwidth, phaseRelationship, dichoticDifference, itd, ipd, narrowBandCmpLevel, duration, ramp, fs, maxLevel, seed, floatIndex) ==
    LET nSamples == msToSamples(duration, fs)
        nRamp == msToSamples(ramp, fs)
        nTot == nTotOf(nSamples, nRamp)
        noisBandwidth == Log2Cents(highFreq, lowFreq)
        nComponents == noisBandwidth \div spacing
        amp == AmpOfDb(cmpLevel - maxLevel)
        amp2 == AmpOfDb(narrowBandCmpLevel - maxLevel)
        freqsToShift == dichoticFreqsToShift(lowHarm, F0, highHarm, lowFreq, spacing,
                                             nComponents, sigBandwidth,
                                             phaseRelationship)
        selected == {freqsToShift[j] : j \in 1..Len(freqsToShift)}
        snd == array([k \in 1..nTot |->
                 <<SumOver(0, nComponents - 1, [r \in 0..(nComponents - 1) |->
                       sinArray(r, k - 1, selected, dichoticDifference, amp, amp2,
                                pinkFreq(r, lowFreq, spacing), PhaseDraw(seed, r),
                                ipd, itd, fs)]),
                   SumOver(0, nComponents - 1, [r \in 0..(nComponents - 1) |->
                       sinArrayLeft(r, k - 1, selected, dichoticDifference, amp, amp2,
                                    pinkFreq(r, lowFreq, spacing), PhaseDraw(seed, r),
                                    ipd, itd, fs)])>>])
    IN  IF nComponents = 0 THEN Raise("IndexError")
        ELSE IF /\ dichoticDifference \in {"IPD", "ITD", "Level"}
                /\ Len(freqsToShift) > 0
                /\ floatIndex = "refused"
        THEN Raise("IndexError")
        ELSE gate(ramp, snd, fs)

\* The channel complexToneParallel hands pureTone for harmonic i; with any
\* other channel value thisChan is never bound.
thisChan(channel, i) ==
    IF channel \in {"Right", "Left", "Both"} THEN channel
    ELSE IF i % 2 > 0
    THEN (IF channel = "Odd Left" THEN "Left" ELSE "Right")
    ELSE (IF channel = "Odd Left" THEN "Right" ELSE "Left")

\* The phase complexToneParallel hands pureTone, which is a sine, for
\* harmonic i.
thisPhase(harmPhase, i, highHarm, rnd) ==
    IF harmPhase = "Sine" THEN <<0, 1>>
    ELSE IF harmPhase = "Cosine" THEN <<1, 2>>
    ELSE IF harmPhase = "Alternating"
    THEN IF i % 2 > 0 THEN <<0, 1>> ELSE <<1, 2>>
    ELSE IF harmPhase = "Schroeder" THEN <<-(i * (i - 1)), highHarm>>
    ELSE rnd[i]

\* The arguments of the pureTone task submitted for harmonic i.
parallelTask(i, F0, harmPhase, highHarm, stretch, level, duration, ramp, channel, fs, maxLevel, rnd) ==
    <<(F0 * i) + ((F0 * stretch) \div 100),
      thisPhase(harmPhase, i, highHarm, rnd),
      level, duration, ramp, thisChan(channel, i), fs, maxLevel>>

\* snd = snd + tn[i] for every result in tn, from snd = zeros((nTot, 2)).
RECURSIVE sumResults(_, _)
sumResults(snd, results) ==
    IF results = <<>> THEN snd
    ELSE sumResults(AddRows(snd, Head(results)), Tail(results))

----------------------------------------------------------------------------
(* Transforms.                                                             *)

\* sig * 10**(level/20): a new array.
scale(level, sig) ==
    Ok([k \in 1..Len(sig) |->
          <<(sig[k][1] * AmpOfDb(level)) \div 100,
            (sig[k][2] * AmpOfDb(level)) \div 100>>])

levelGlideAmp_Reversed(k, startPnt, endPnt, endAmp) ==
    IF k >= endPnt THEN endAmp
    ELSE IF k >= startPnt
    THEN ((100 + endAmp) * 100
            - (100 - endAmp) * CosPi(k - startPnt, endPnt - startPnt)) \div 200
    ELSE 100

\* ampArray of imposeLevelGlide in hundredths: 1 up to startPnt,
\* ((x + cos(pi*t/nRamp))/y) = ((1 + endAmp) + (1 - endAmp)*cos(pi*t/nRamp))/2
\* from startPnt to endPnt, endAmp from endPnt on.
levelGlideAmp(k, startPnt, endPnt, endAmp) ==
    IF k >= endPnt THEN endAmp
    ELSE IF k >= startPnt
    THEN ((100 + endAmp) * 100
            + (100 - endAmp) * CosPi(k - startPnt, endPnt - startPnt)) \div 200
    ELSE 100

\* With deltaL = 0 the function returns the array it was given.  The slice
\* ampArray[startPnt:endPnt] is clipped to the array; a ramp of two or more
\* values that does not fit it cannot be assigned (ValueError).  Only the
\* column(s) named by channel are written; any other value leaves zeros.
imposeLevelGlide(sig, deltaL, startTime, endTime, channel, fs) ==
    LET endAmp == AmpOfDb(deltaL)
        nSamples == Len(sig)
        startPnt == Round(startTime * fs, 1000)
        endPnt == Round(endTime * fs, 1000)
        nRamp == endPnt - startPnt
        sliceLen == Max(0, Min(endPnt, nSamples) - Min(startPnt, nSamples))
        amp(k) == levelGlideAmp(k - 1, startPnt, endPnt, endAmp)
        right == [k \in 1..nSamples |-> (sig[k][2] * amp(k)) \div 100]
        left == [k \in 1..nSamples |-> (sig[k][1] * amp(k)) \div 100]
    IN  IF deltaL = 0 THEN Ok(sig)
        ELSE IF nRamp >= 2 /\ sliceLen # nRamp THEN Raise("ValueError")
        ELSE IF channel = "Right" THEN Ok([k \in 1..nSamples |-> <<0, right[k]>>])
        ELSE IF channel = "Left" THEN Ok([k \in 1..nSamples |-> <<left[k], 0>>])
        ELSE IF channel = "Both" THEN Ok([k \in 1..nSamples |-> <<left[k], right[k]>>])
        ELSE Ok(zeros(nSamples))

\* n = 256, the number of taps of the filter
NTaps == 256

fir2FiltBand_BandFirst(f2, f3, fs) ==
    IF f3 * 2 < fs THEN "bandpass"
    ELSE IF f2 = 0 THEN "lowpass"
    ELSE "highpass"

\* The branch fir2Filt takes, from the frequencies given in hertz:
\* f2 == 0, else f3*2/fs < 1, else highpass.
fir2FiltBand(f2, f3, fs) ==
    IF f2 = 0 THEN "lowpass"
    ELSE IF f3 * 2 < fs THEN "bandpass"
    ELSE "highpass"

\* The fraction n/d (d > 0) in lowest terms, <<numerator, denominator>>.
Fraction(n, d) == <<n \div GCD(Abs(n), d), d \div GCD(Abs(n), d)>>

\* A frequency in hertz in units of fs/2, (f * 2) / fs.
Normalised(f, fs) == Fraction(f * 2, fs)

\* The lists f and m handed to firwin2, <<f, m>>: the frequency points as
\* fractions of fs/2, the gains in units of 0.00001.
fir2FiltPoints(f1, f2, f3, f4, fs) ==
    LET band == fir2FiltBand(f2, f3, fs)
        n1 == Normalised(f1, fs)
        n2 == Normalised(f2, fs)
        n3 == Normalised(f3, fs)
        n4 == Normalised(f4, fs)
    IN  IF band = "lowpass"
        THEN << <<<<0, 1>>, n3, n4, <<1, 1>>>>, <<100000, 100000, 3, 0>> >>
        ELSE IF band = "bandpass"
        THEN << <<<<0, 1>>, n1, n2, Fraction(f2 + f3, fs), n3, n4, <<1, 1>>>>,
                <<0, 3, 100000, 100000, 100000, 3, 0>> >>
        ELSE << <<<<0, 1>>, n1, n2, <<999999, 1000000>>, <<1, 1>>>>,
                <<0, 3, 100000, 100000, 0>> >>

\* firwin2 wants the frequency points nondecreasing (they start at 0 and
\* end at 1 in every branch); otherwise it raises ValueError.
fir2FiltPointsValid(f1, f2, f3, f4, fs) ==
    LET f == fir2FiltPoints(f1, f2, f3, f4, fs)[1]
    IN  \A i \in 1..(Len(f) - 1) : f[i][1] * f[i + 1][2] <= f[i + 1][1] * f[i][2]

\* The taps b = firwin2(n, f, m), as integers.  Their values are those of
\* the plainest filter of each kind: a running sum for the lowpass, a
\* running sum with alternating signs for the highpass, with signs
\* +, 0, -, 0 for the bandpass.
firwin2(band) ==
    [i \in 1..NTaps |->
        IF band = "lowpass" THEN 1
        ELSE IF band = "highpass" THEN (IF i % 2 = 1 THEN 1 ELSE -1)
        ELSE (IF i % 4 = 1 THEN 1 ELSE IF i % 4 = 3 THEN -1 ELSE 0)]

\* numpy.convolve(a, v, 1): mode 1 is 'same', the max(M, N) central values
\* of the full convolution (a and v not empty).
convolveSame(a, v) ==
    LET M == Len(a)
        N == Len(v)
        first == (Min(M, N) - 1) \div 2
        full(j) == SumOver(Max(0, j - N + 1), Min(j, M - 1),
                           [i \in Max(0, j - N + 1)..Min(j, M - 1) |->
                               a[i + 1] * v[j - i + 1]])
    IN  [k \in 1..Max(M, N) |-> full(first + k - 1)]

\* x = copy.copy(snd); x[:, 0] = convolve(snd[:,0], b, 1), and the same for
\* column 1.  convolve refuses an empty array, and its max(len(snd), 256)
\* values fit the column only when the Signal has at least 256 rows.
fir2Filt(f1, f2, f3, f4, snd, fs) ==
    LET b == firwin2(fir2FiltBand(f2, f3, fs))
        c0 == convolveSame(Column(snd, 1), b)
        c1 == convolveSame(Column(snd, 2), b)
    IN  IF ~fir2FiltPointsValid(f1, f2, f3, f4, fs) THEN Raise("ValueError")
        ELSE IF Len(snd) < NTaps THEN Raise("ValueError")
        ELSE Ok([k \in 1..Len(snd) |-> <<c0[k], c1[k]>>])

\* The discrete Fourier transform fft(x, N) of the real sequence x padded
\* with zeros to N points: bin k (from 0) is element k+1, a pair <<re, im>>.
fft(x, N) ==
    array([b \in 1..N |->
        <<SumOver(1, Len(x), [j \in 1..Len(x) |->
                    x[j] * CosPi(2 * (b - 1) * (j - 1), N)]) \div 100,
          SumOver(1, Len(x), [j \in 1..Len(x) |->
                    -(x[j] * SinPi(2 * (b - 1) * (j - 1), N))]) \div 100>>])

\* real(ifft(X)) for the N bins X.
realIfft(X) ==
    LET N == Len(X)
    IN  array([n \in 1..N |->
            SumOver(1, N, [b \in 1..N |->
                X[b][1] * CosPi(2 * (b - 1) * (n - 1), N)
                  - X[b][2] * SinPi(2 * (b - 1) * (n - 1), N)]) \div (100 * N)])

\* int(ceil(log2(x))) for x >= 1
RECURSIVE nextpow2From(_, _)
nextpow2From(x, p) == IF 2 ^ p >= x THEN p ELSE nextpow2From(x, p + 1)

nextpow2_Strict(x) == nextpow2From(x + 1, 0)

nextpow2(x) == nextpow2From(x, 0)

\* numpy.abs of the complex number re + j*im.  The squares of parts past
\* 30000 do not fit the integers of the checker: such parts are taken in
\* units of s, which leaves the smaller ones as they are.
absComplex(re, im) ==
    LET big == IF Abs(re) > Abs(im) THEN Abs(re) ELSE Abs(im)
        s == 1 + (big \div 30000)
    IN  s * Isqrt((re \div s) * (re \div s) + (im \div s) * (im \div s))

\* pnts = arange(lo, hi+1); mag = abs(x[pnts]); newPhase = angle(pnts) + shift;
\* x[pnts] = mag * (cos(newPhase) + 1j*sin(newPhase)).
\* angle is taken of the bin numbers pnts, which are real and not negative,
\* so it is 0 and the new phase of each bin is the shift itself.
setBinPhase(x, lo, hi, shift) ==
    array([b \in 1..Len(x) |->
        IF lo <= b - 1 /\ b - 1 <= hi
        THEN LET mag == absComplex(x[b][1], x[b][2])
             IN  <<(mag * CosPi(shift[1], shift[2])) \div 100,
                   (mag * SinPi(shift[1], shift[2])) \div 100>>
        ELSE x[b]])

\* The bins of one column as phaseShift leaves them before the inverse
\* transform: the bins start1..end1 get the phase +phase_shift, then the
\* bins end2..start2 the phase -phase_shift.
phaseShiftBins(col, fftPoints, start1, end1, phase_shift) ==
    LET start2 == fftPoints - start1
        end2 == fftPoints - end1
    IN  setBinPhase(setBinPhase(fft(col, fftPoints), start1, end1, phase_shift),
                    end2, start2, <<-phase_shift[1], phase_shift[2]>>)

\* One column through phaseShift: x = real(ifft(x)), of which the first
\* nSamples values are kept.
phaseShiftColumn(col, fftPoints, start1, end1, phase_shift) ==
    Slice(realIfft(phaseShiftBins(col, fftPoints, start1, end1, phase_shift)),
          0, Len(col))

\* log2(0) is -inf and int(-inf) ends in OverflowError.  In a channel
\* branch a bin number past the last bin is an IndexError: end1 when the
\* first range is not empty, start2 = fftPoints when start1 = 0.
phaseShift(sig, f1, f2, phase_shift, channel, fs) ==
    LET nSamples == Len(sig)
        fftPoints == 2 ^ nextpow2(nSamples)
        start1 == Round(f1 * fftPoints, fs)
        end1 == Round(f2 * fftPoints, fs)
        left == phaseShiftColumn(array(Column(sig, 1)), fftPoints, start1, end1,
                                 phase_shift)
        right == phaseShiftColumn(array(Column(sig, 2)), fftPoints, start1, end1,
                                  phase_shift)
    IN  IF nSamples = 0 THEN Raise("OverflowError")
        ELSE IF channel \notin {"Left", "Right", "Both"} THEN Ok(zeros(nSamples))
        ELSE IF start1 <= end1 /\ (end1 >= fftPoints \/ start1 <= 0)
        THEN Raise("IndexError")
        ELSE IF channel = "Left"
        THEN Ok(array([k \in 1..nSamples |-> <<left[k], sig[k][2]>>]))
        ELSE IF channel = "Right"
        THEN Ok(array([k \in 1..nSamples |-> <<sig[k][1], right[k]>>]))
        ELSE Ok(array([k \in 1..nSamples |-> <<left[k], right[k]>>]))

\* One column through the pink filter: every bin but the first is scaled
\* by sqrt(ref/idx), idx its frequency index, ref the rational <<n, d>>;
\* rfft/irfft of nSamples points are the first half of fft/ifft.
pinkColumn(col, ref) ==
    LET n == Len(col)
        x == fft(col, n)
        gain(b) == LET idx == Min(b - 1, n - (b - 1))
                   IN  Isqrt((10000 * ref[1]) \div (ref[2] * idx))
        scaled == [b \in 1..n |->
                     IF b = 1 THEN x[b]
                     ELSE <<(x[b][1] * gain(b)) \div 100, (x[b][2] * gain(b)) \div 100>>]
    IN  realIfft(scaled)

\* The pink filter on both columns.
pinkBoth(sig, ref) ==
    LET sig0 == pinkColumn(array(Column(sig, 1)), ref)
        sig1 == pinkColumn(array(Column(sig, 2)), ref)
    IN  array([k \in 1..Len(sig) |-> <<sig0[k], sig1[k]>>])

\* makePink writes sig0 and sig1 into the array it was given and returns
\* that array: the result is <<err, sig>>, sig being the caller's array
\* after the call.  ref = 1 + (1000 * nSamples/fs).
makePink(sig, fs) ==
    LET nSamples == Len(sig)
    IN  IF nSamples < 2 THEN <<"none", sig>>
        ELSE <<"none", pinkBoth(sig, <<fs + 1000 * nSamples, fs>>)>>

\* makePinkRef calls rfft and irfft without a length: rfft refuses an
\* empty column, and irfft returns 2*(m-1) values for m bins, one fewer
\* than the column holds when nSamples is odd (none at all for one sample,
\* which irfft refuses), so that sig[:, 0] = sig0 cannot be assigned.
\* Nothing has been written when the error is raised.
makePinkRef(sig, fs, refHz) ==
    LET nSamples == Len(sig)
    IN  IF nSamples = 0 \/ nSamples % 2 = 1 THEN <<"ValueError", sig>>
        ELSE <<"none", pinkBoth(sig, <<fs + refHz * nSamples, fs>>)>>

----------------------------------------------------------------------------
(* Compositors.                                                            *)

\* nSamples = int(truncated duration/1000 * fs)
makeSilence_Truncate(duration, fs) == zeros((duration[1] * fs) \div (1000 * duration[2]))

\* duration is the rational <<n, d>> milliseconds:
\* nSamples = int(round(duration/1000 * fs)); snd = zeros((nSamples, 2))
makeSilence(duration, fs) == zeros(Round(duration[1] * fs, 1000 * duration[2]))

\* delay in milliseconds.  nSampSeg1 = round(delay * fs) decides the branch;
\* the silence of the second branch lasts (delay - snd1Duration) seconds,
\* that is (delay*fs - 1000*nSnd1)/fs milliseconds.
addSounds(snd1, snd2, delay, fs) ==
    LET nSnd1 == Len(snd1)
        nSnd2 == Len(snd2)
        nSampSeg1 == Round(delay * fs, 1000)
        nSampSeg2 == nSnd1 - nSampSeg1
        seg1 == Slice(snd1, 0, nSampSeg1)
        seg2a == Slice(snd1, nSampSeg1, nSnd1)
        seg2b == IF nSampSeg2 > nSnd2
                 THEN concatenate(snd2, zeros(nSampSeg2 - nSnd2))
                 ELSE Slice(snd2, 0, nSampSeg2)
        seg3 == Slice(snd2, nSampSeg2, nSnd2)
        snd == concatenate(seg1, AddRows(seg2a, seg2b))
    IN  IF nSampSeg1 < nSnd1
        THEN Ok(IF nSampSeg2 < nSnd2 THEN concatenate(snd, seg3) ELSE snd)
        ELSE Ok(concatenate(
                  concatenate(snd1,
                              makeSilence(<<delay * fs - 1000 * nSnd1, fs>>, fs)),
                  snd2))

\* The loop of joinSndISI from index i on (i counts from 1), snd being the
\* sequence built so far.
RECURSIVE joinSndISILoop(_, _, _, _, _)
joinSndISILoop(i, snd, sndList, ISIList, fs) ==
    IF i > Len(sndList) THEN snd
    ELSE LET thisSilence == IF i < Len(sndList)
                            THEN makeSilence(<<ISIList[i], 1>>, fs)
                            ELSE makeSilence(<<0, 1>>, fs)
             next == IF i = 1
                     THEN concatenate(sndList[i], thisSilence)
                     ELSE concatenate(concatenate(snd, sndList[i]), thisSilence)
         IN  joinSndISILoop(i + 1, next, sndList, ISIList, fs)

\* With an empty list the loop body never runs and 'return snd' reads an
\* unbound local; with too few intervals ISIList[i] is out of range.
joinSndISI(sndList, ISIList, fs) ==
    IF Len(sndList) = 0 THEN Raise("UnboundLocalError")
    ELSE IF Len(ISIList) < Len(sndList) - 1 THEN Raise("IndexError")
    ELSE Ok(joinSndISILoop(1, <<>>, sndList, ISIList, fs))

\* The frequency regions <<f1, f2>> makeHuggins hands to phaseShift in
\* the turn i of its loop, in the order of the calls.
hugginsRegionsAt(i, F0, lowHarm, highHarm, bandwidth, phaseRelationship, fs) ==
    IF phaseRelationship = "NoSpi"
    THEN << <<(i * F0) - (bandwidth \div 2), (i * F0) + (bandwidth \div 2)>> >>
    ELSE IF phaseRelationship = "NpiSo"
    THEN IF i = lowHarm
         THEN << <<10, (i * F0) - (bandwidth \div 2)>> >>
         ELSE IF i = highHarm + 1
         THEN << <<((i - 1) * F0) + (bandwidth \div 2), (i * F0) - (bandwidth \div 2)>>,
                 <<(i * F0) + (bandwidth \div 2), fs \div 2>> >>
         ELSE << <<((i - 1) * F0) + (bandwidth \div 2), (i * F0) - (bandwidth \div 2)>> >>
    ELSE <<>>

\* The regions of all the turns, for i in range(lowHarm, highHarm+1).
RECURSIVE hugginsRegionsFrom(_, _, _, _, _, _, _)
hugginsRegionsFrom(i, F0, lowHarm, highHarm, bandwidth, phaseRelationship, fs) ==
    IF i > highHarm THEN <<>>
    ELSE hugginsRegionsAt(i, F0, lowHarm, highHarm, bandwidth, phaseRelationship, fs)
           \o hugginsRegionsFrom(i + 1, F0, lowHarm, highHarm, bandwidth,
                                 phaseRelationship, fs)

hugginsRegions(F0, lowHarm, highHarm, bandwidth, phaseRelationship, fs) ==
    hugginsRegionsFrom(lowHarm, F0, lowHarm, highHarm, bandwidth,
                       phaseRelationship, fs)

\* tone = phaseShift(tone, f1, f2, pi, "Left", fs) for each region from
\* the j-th on; r is the outcome so far and an error ends the loop.
RECURSIVE hugginsShiftLoop(_, _, _, _)
hugginsShiftLoop(j, r, regions, fs) ==
    IF j > Len(regions) \/ Err(r) # "none" THEN r
    ELSE hugginsShiftLoop(j + 1,
             phaseShift(Snd(r), regions[j][1], regions[j][2], <<1, 1>>, "Left", fs),
             regions, fs)

\* A Signal of a generator, whose samples are products of an amplitude in
\* hundredths, a window in two-hundredths and a carrier in hundredths, in
\* hundredths.
InHundredths(snd) ==
    array([k \in 1..Len(snd) |-> <<snd[k][1] \div 20000, snd[k][2] \div 20000>>])

\* The noise of makeHuggins: one piece of duration + 2*ramp milliseconds
\* without ramps, made pink in place when asked for.
hugginsNoise(spectrumLevel, noiseType, duration, ramp, fs, maxLevel, seed) ==
    LET tone == InHundredths(Snd(broadbandNoise(spectrumLevel, duration + (ramp * 2),
                                                0, "Both", fs, maxLevel, seed)))
    IN  IF noiseType = "Pink" THEN makePink(tone, fs)[2] ELSE tone

\* The noise goes through the phase shifts of the regions and is gated;
\* snd = zeros((nTot, 2)) is dropped for the gated noise.
makeHuggins(F0, lowHarm, highHarm, spectrumLevel, bandwidth, phaseRelationship, noiseType, duration, ramp, fs, maxLevel, seed) ==
    LET tone == hugginsNoise(spectrumLevel, noiseType, duration, ramp, fs,
                             maxLevel, seed)
        shifted == hugginsShiftLoop(1, Ok(tone),
                       hugginsRegions(F0, lowHarm, highHarm, bandwidth,
                                      phaseRelationship, fs), fs)
        gated == gate(ramp, Snd(shifted), fs)
    IN  IF Err(shifted) # "none" THEN Raise(Err(shifted))
        ELSE IF gated[1] # "none" THEN Raise(gated[1])
        ELSE Ok(gated[2])

\* The loop of makeAsynchChord from index i on (i counts from 0): tones
\* holds thisTone of each turn, in the shuffled order; the first is taken
\* as it is, tone i is added with the delay SOA*i.
RECURSIVE makeAsynchChordLoop(_, _, _, _, _)
makeAsynchChordLoop(i, snd, tones, SOA, fs) ==
    IF i >= Len(tones) THEN snd
    ELSE makeAsynchChordLoop(i + 1,
             IF i = 0 THEN tones[1]
             ELSE Snd(addSounds(snd, tones[i + 1], SOA * i, fs)),
             tones, SOA, fs)

\* seq is the shuffled numpy.arange(len(freqs)), counted from 1; freqs,
\* levels and phases have the same length.  With no component snd is never
\* bound; an unrecognised channel makes the first pureTone raise.
makeAsynchChord(freqs, levels, phases, tonesDuration, tonesRamps, tonesChannel, SOA, fs, maxLevel, seq) ==
    LET thisTone(i) == pureTone(freqs[seq[i]], phases[seq[i]], levels[seq[i]],
                                tonesDuration, tonesRamps, tonesChannel, fs,
                                maxLevel)
    IN  IF Len(freqs) = 0 THEN Raise("UnboundLocalError")
        ELSE IF Err(thisTone(1)) # "none" THEN Raise(Err(thisTone(1)))
        ELSE Ok(makeAsynchChordLoop(0, <<>>,
                    [i \in 1..Len(freqs) |-> Snd(thisTone(i))], SOA, fs))

----------------------------------------------------------------------------
(* The caller.  One behaviour is one call of one library function.         *)

Init ==
    /\ op = "none"
    /\ args = <<>>
    /\ inp = <<>>
    /\ mem = <<>>
    /\ ret = Ok(<<>>)
    /\ warned = {}
    /\ ppc = "idle"
    /\ pargs = <<>>
    /\ queue = {}
    /\ tn = <<>>
    /\ psnd = <<>>

\* Nothing has been called yet.
Idle == op = "none" /\ ppc = "idle"

\* A call of a generator that may warn: it takes no Signal, returns a new
\* one and hands the warnings w to warnings.warn.
GeneratedWarning(name, a, r, w) ==
    /\ op' = name
    /\ args' = a
    /\ inp' = <<>>
    /\ mem' = <<>>
    /\ ret' = r
    /\ warned' = w
    /\ UNCHANGED parVars

\* A call of a generator that has no warning to give.
Generated(name, a, r) == GeneratedWarning(name, a, r, {})

\* A call that is handed Signals: before holds them as they were when the
\* call was made, after as the caller finds them when it has ended.
Called(name, a, before, after, r) ==
    /\ op' = name
    /\ args' = a
    /\ inp' = before
    /\ mem' = after
    /\ ret' = r
    /\ warned' = {}
    /\ UNCHANGED parVars

\* The parameter names of each function, in the order of its signature.
Signature(f) ==
    CASE f = "pureTone" ->
           <<"frequency", "phase", "level", "duration", "ramp", "channel",
             "fs", "maxLevel">>
      [] f = "AMTone" ->
           <<"frequency", "AMFreq", "AMDepth", "phase", "level", "duration",
             "ramp", "channel", "fs", "maxLevel">>
      [] f = "FMTone" ->
           <<"fc", "fm", "mi", "phase", "level", "duration", "ramp",
             "channel", "fs", "maxLevel">>
      [] f = "binauralPureTone" ->
           <<"frequency", "phase", "level", "duration", "ramp", "channel",
             "itd", "itdRef", "ild", "ildRef", "fs", "maxLevel">>
      [] f = "expSinFMTone" ->
           <<"fc", "fm", "deltaCents", "phase", "level", "duration", "ramp",
             "channel", "fs", "maxLevel">>
      [] f = "chirp" ->
           <<"freqStart", "ftype", "rate", "level", "duration", "phase",
             "ramp", "channel", "fs", "maxLevel">>
      [] f = "glide" ->
           <<"freqStart", "ftype", "excursion", "level", "duration", "phase",
             "ramp", "channel", "fs", "maxLevel">>
      [] f = "complexTone" ->
           <<"F0", "harmPhase", "lowHarm", "highHarm", "stretch", "level",
             "duration", "ramp", "channel", "fs", "maxLevel", "rnd">>
      [] f = "broadbandNoise" ->
           <<"spectrumLevel", "duration", "ramp", "channel", "fs", "maxLevel",
             "seed">>
      [] f = "steepNoise" ->
           <<"frequency1", "frequency2", "level", "duration", "ramp",
             "channel", "fs", "maxLevel", "seed">>
      [] f = "pinkNoiseFromSin" ->
           <<"compLevel", "lowCmp", "highCmp", "spacing", "duration", "ramp",
             "channel", "fs", "maxLevel", "seed">>
      [] f = "harmComplFromNarrowbandNoise" ->
           <<"F0", "lowHarm", "highHarm", "level", "bandwidth", "duration",
             "ramp", "channel", "fs", "maxLevel", "seed">>
      [] f = "makeAsynchChord" ->
           <<"freqs", "levels", "phases", "tonesDuration", "tonesRamps",
             "tonesChannel", "SOA", "fs", "maxLevel", "seq">>
      [] f = "makeHuggins" ->
           <<"F0", "lowHarm", "highHarm", "spectrumLevel", "bandwidth",
             "phaseRelationship", "noiseType", "duration", "ramp", "fs",
             "maxLevel", "seed">>
      [] f = "makeSimpleDichotic" ->
           <<"F0", "lowHarm", "highHarm", "cmpLevel", "lowFreq", "highFreq",
             "spacing", "sigBandwidth", "phaseRelationship",
             "dichoticDifference", "itd", "ipd", "narrowBandCmpLevel",
             "duration", "ramp", "fs", "maxLevel", "seed", "floatIndex">>
      [] f = "addSounds" -> <<"snd1", "snd2", "delay", "fs">>
      [] f = "joinSndISI" -> <<"sndList", "ISIList", "fs">>
      [] f = "gate" -> <<"ramps", "sig", "fs">>
      [] f = "fir2Filt" -> <<"f1", "f2", "f3", "f4", "snd", "fs">>
      [] f = "phaseShift" ->
           <<"sig", "f1", "f2", "phase_shift", "channel", "fs">>
      [] f = "phaseShiftBack" ->
           <<"sig", "f1", "f2", "phase_shift", "channel", "fs">>
      [] f = "makePink" -> <<"sig", "fs">>
      [] f = "makePinkRef" -> <<"sig", "fs", "refHz">>
      [] f = "imposeLevelGlide" ->
           <<"sig", "deltaL", "startTime", "endTime", "channel", "fs">>
      [] f = "scale" -> <<"level", "sig">>
      [] f = "complexToneParallel" ->
           <<"F0", "harmPhase", "lowHarm", "highHarm", "stretch", "level",
             "duration", "ramp", "channel", "fs", "maxLevel", "rnd">>
      [] OTHER -> <<>>

HasArg(name) == \E i \in DOMAIN Signature(op) : Signature(op)[i] = name

\* The value the last call was given for the parameter 'name'.
Arg(name) == args[CHOOSE i \in DOMAIN Signature(op) : Signature(op)[i] = name]

CallPureTone ==
    /\ Idle
    /\ \E frequency \in FreqSet, phase \in PhaseSet, level \in LevelSet,
       duration \in DurSet, ramp \in RampSet, channel \in ChannelSet,
       fs \in FsSet, maxLevel \in MaxLevelSet :
        Generated("pureTone",
            <<frequency, phase, level, duration, ramp, channel, fs, maxLevel>>,
            pureTone(frequency, phase, level, duration, ramp, channel, fs, maxLevel))

CallAMTone ==
    /\ Idle
    /\ \E frequency \in FreqSet, AMFreq \in {125}, AMDepth \in {0, 1},
       phase \in PhaseSet, level \in LevelSet,
       duration \in DurSet, ramp \in RampSet, channel \in ChannelSet,
       fs \in FsSet, maxLevel \in MaxLevelSet :
        Generated("AMTone",
            <<frequency, AMFreq, AMDepth, phase, level, duration, ramp,
              channel, fs, maxLevel>>,
            AMTone(frequency, AMFreq, AMDepth, phase, level, duration, ramp,
                   channel, fs, maxLevel))

CallFMTone ==
    /\ Idle
    /\ \E fc \in FreqSet, fm \in {125}, mi \in {1},
       phase \in PhaseSet, level \in LevelSet,
       duration \in DurSet, ramp \in RampSet, channel \in ChannelSet,
       fs \in FsSet, maxLevel \in MaxLevelSet :
        Generated("FMTone",
            <<fc, fm, mi, phase, level, duration, ramp, channel, fs, maxLevel>>,
            FMTone(fc, fm, mi, phase, level, duration, ramp, channel, fs, maxLevel))

CallBinauralPureTone ==
    /\ Idle
    /\ \E frequency \in FreqSet, phase \in {<<0, 1>>}, level \in {80},
       duration \in DurSet, ramp \in RampSet, channel \in ChannelSet,
       itd \in {0, 1000}, itdRef \in {"Right", "Left", "None", "Both"},
       ild \in {0, 20}, ildRef \in {"Right", "Left", "None", "Both"},
       fs \in {1000}, maxLevel \in MaxLevelSet :
        GeneratedWarning("binauralPureTone",
            <<frequency, phase, level, duration, ramp, channel, itd, itdRef,
              ild, ildRef, fs, maxLevel>>,
            binauralPureTone(frequency, phase, level, duration, ramp, channel,
                             itd, itdRef, ild, ildRef, fs, maxLevel),
            binauralPureToneWarnings(channel, itd, itdRef, ild, ildRef))

CallExpSinFMTone ==
    /\ Idle
    /\ \E fc \in {250}, fm \in {500}, deltaCents \in {0, 1200},
          phase \in PhaseSet, level \in {100},
          duration \in DurSet, ramp \in RampSet, channel \in ChannelSet,
          fs \in FsSet, maxLevel \in MaxLevelSet :
        Generated("expSinFMTone",
            <<fc, fm, deltaCents, phase, level, duration, ramp, channel, fs,
              maxLevel>>,
            expSinFMTone(fc, fm, deltaCents, phase, level, duration, ramp,
                         channel, fs, maxLevel))

CallChirp ==
    /\ Idle
    /\ \E freqStart \in {125}, ftype \in {"linear", "exponential", "cubic"},
          rate \in {<<0, 1>>, <<250000, 1>>}, level \in {100},
          duration \in DurSet, phase \in {<<0, 1>>, <<1, 4>>},
          ramp \in RampSet, channel \in ChannelSet,
          fs \in FsSet, maxLevel \in MaxLevelSet :
        Generated("chirp",
            <<freqStart, ftype, rate, level, duration, phase, ramp, channel,
              fs, maxLevel>>,
            chirp(freqStart, ftype, rate, level, duration, phase, ramp,
                  channel, fs, maxLevel))

CallGlide ==
    /\ Idle
    /\ \E freqStart \in {125}, ftype \in {"linear", "exponential"},
          excursion \in {0, 500}, level \in {100},
          duration \in DurSet, phase \in {<<0, 1>>},
          ramp \in RampSet, channel \in ChannelSet,
          fs \in FsSet, maxLevel \in MaxLevelSet :
        Generated("glide",
            <<freqStart, ftype, excursion, level, duration, phase, ramp,
              channel, fs, maxLevel>>,
            glide(freqStart, ftype, excursion, level, duration, phase, ramp,
                  channel, fs, maxLevel))

HarmPhaseSet == {"Sine", "Cosine", "Alternating", "Schroeder", "Random"}

\* The random phases drawn for the harmonics 1..MaxHarm.
RndSet == {[i \in 1..MaxHarm |-> PhaseDraw(seed, i)] : seed \in {1, 2}}

CallComplexTone ==
    /\ Idle
    /\ \E F0 \in {125}, harmPhase \in HarmPhaseSet,
          lowHarm \in 1..MaxHarm, highHarm \in 1..MaxHarm,
          stretch \in {0}, level \in {100},
          duration \in {0, 1, MaxDur}, ramp \in {0, 1, MaxRampMs},
          channel \in ChannelSet,
          fs \in FsSet, maxLevel \in MaxLevelSet, rnd \in RndSet :
        /\ lowHarm <= highHarm
        /\ harmPhase # "Random" => rnd = [i \in 1..MaxHarm |-> PhaseDraw(1, i)]
        /\ Generated("complexTone",
              <<F0, harmPhase, lowHarm, highHarm, stretch, level, duration,
                ramp, channel, fs, maxLevel, rnd>>,
              complexTone(F0, harmPhase, lowHarm, highHarm, stretch, level,
                          duration, ramp, channel, fs, maxLevel, rnd))

CallBroadbandNoise ==
    /\ Idle
    /\ \E spectrumLevel \in LevelSet,
          duration \in DurSet, ramp \in RampSet, channel \in ChannelSet,
          fs \in FsSet, maxLevel \in MaxLevelSet, seed \in {1, 2} :
        Generated("broadbandNoise",
            <<spectrumLevel, duration, ramp, channel, fs, maxLevel, seed>>,
            broadbandNoise(spectrumLevel, duration, ramp, channel, fs,
                           maxLevel, seed))

CallSteepNoise ==
    /\ Idle
    /\ \E frequency1 \in {200}, frequency2 \in {200, 300, 450},
          level \in {100},
          duration \in DurSet, ramp \in RampSet, channel \in ChannelSet,
          fs \in FsSet, maxLevel \in MaxLevelSet, seed \in {1, 2} :
        Generated("steepNoise",
            <<frequency1, frequency2, level, duration, ramp, channel, fs,
              maxLevel, seed>>,
            steepNoise(frequency1, frequency2, level, duration, ramp, channel,
                       fs, maxLevel, seed))

CallPinkNoiseFromSin ==
    /\ Idle
    /\ \E compLevel \in {100}, lowCmp \in {100}, highCmp \in {200, 400},
          spacing \in {600, 1200, 3000},
          duration \in DurSet, ramp \in RampSet, channel \in ChannelSet,
          fs \in FsSet, maxLevel \in MaxLevelSet, seed \in {1, 2} :
        Generated("pinkNoiseFromSin",
            <<compLevel, lowCmp, highCmp, spacing, duration, ramp, channel,
              fs, maxLevel, seed>>,
            pinkNoiseFromSin(compLevel, lowCmp, highCmp, spacing, duration,
                             ramp, channel, fs, maxLevel, seed))

CallHarmComplFromNarrowbandNoise ==
    /\ Idle
    /\ \E F0 \in {200}, lowHarm \in 1..MaxHarm, highHarm \in 1..MaxHarm,
          level \in {100}, bandwidth \in {0, 200},
          duration \in {0, 1, MaxDur}, ramp \in {0, 1},
          channel \in ChannelSet,
          fs \in FsSet, maxLevel \in MaxLevelSet, seed \in {1, 2} :
        /\ lowHarm <= highHarm
        /\ Generated("harmComplFromNarrowbandNoise",
              <<F0, lowHarm, highHarm, level, bandwidth, duration, ramp,
                channel, fs, maxLevel, seed>>,
              harmComplFromNarrowbandNoise(F0, lowHarm, highHarm, level,
                  bandwidth, duration, ramp, channel, fs, maxLevel, seed))

\* The two generators of harmonic complexes.
NextHarm ==
    \/ CallComplexTone
    \/ CallHarmComplFromNarrowbandNoise

SpecHarm == Init /\ [][NextHarm]_vars

NextGen ==
    \/ CallPureTone
    \/ CallAMTone
    \/ CallFMTone
    \/ CallBinauralPureTone
    \/ CallExpSinFMTone
    \/ CallChirp
    \/ CallGlide
    \/ CallComplexTone
    \/ CallBroadbandNoise
    \/ CallSteepNoise
    \/ CallPinkNoiseFromSin

SpecGen == Init /\ [][NextGen]_vars

----------------------------------------------------------------------------
(* Claims about the generators.                                            *)

\* C1: pureTone, called with channel Left, Right or Both, returns a Signal
\* of round(duration/1000*fs) + 2*round(ramp/1000*fs) two-column rows; with
\* channel Left the Right column is zero at every sample, with channel Right
\* the Left column is zero at every sample.
C1_PureToneShape ==
    (op = "pureTone" /\ Arg("channel") \in LRB) =>
        /\ Err(ret) = "none"
        /\ Len(Snd(ret)) = Round(Arg("duration") * Arg("fs"), 1000)
                             + 2 * Round(Arg("ramp") * Arg("fs"), 1000)
        /\ \A k \in 1..Len(Snd(ret)) : Len(Snd(ret)[k]) = 2
        /\ Arg("channel") = "Left" => IsZeroColumn(Snd(ret), 2)
        /\ Arg("channel") = "Right" => IsZeroColumn(Snd(ret), 1)

\* A one-channel tone with ramps and a steady part was produced, its length
\* rounded from half-sample durations, and the selected column is not zero.
C1_Witness ==
    /\ op = "pureTone"
    /\ Arg("channel") = "Left"
    /\ Arg("fs") = 500
    /\ Arg("duration") = 5
    /\ Arg("ramp") = 3
    /\ Len(Snd(ret)) = 6
    /\ ~IsZeroColumn(Snd(ret), 1)

\* The generators that take a duration and a ramp.
DurRampGenerators ==
    {"pureTone", "AMTone", "FMTone", "expSinFMTone", "chirp", "glide",
     "complexTone", "broadbandNoise", "steepNoise", "pinkNoiseFromSin"}

\* The channel values a generator has a branch for.
RecognisedChannels(f) ==
    IF f = "complexTone" THEN LRB \cup {"Odd Left", "Odd Right"} ELSE LRB

\* C2: every generator that takes duration and ramp, called with a
\* recognised channel value, ends without error and returns a Signal of
\* exactly nSamples + 2*nRamp rows, nSamples = round(duration/1000*fs) and
\* nRamp = round(ramp/1000*fs).
C2_GeneratorsTerminate ==
    (op \in DurRampGenerators /\ Arg("channel") \in RecognisedChannels(op)) =>
        /\ Err(ret) = "none"
        /\ Len(Snd(ret)) = Round(Arg("duration") * Arg("fs"), 1000)
                             + 2 * Round(Arg("ramp") * Arg("fs"), 1000)

\* C9: with nRamp = 0, pureTone with channel 'Both' returns without error
\* and its two columns are equal at every sample.
C9_PureToneNoRampBoth ==
    (/\ op = "pureTone"
     /\ Arg("channel") = "Both"
     /\ Round(Arg("ramp") * Arg("fs"), 1000) = 0) =>
        /\ Err(ret) = "none"
        /\ \A k \in 1..Len(Snd(ret)) : Snd(ret)[k][1] = Snd(ret)[k][2]

C9_Witness ==
    /\ op = "pureTone"
    /\ Arg("channel") = "Both"
    /\ Arg("ramp") = 0
    /\ Arg("duration") = MaxDur
    /\ Len(Snd(ret)) > 1
    /\ Snd(ret)[2][1] # 0
    /\ Snd(ret)[2][2] # 0

----------------------------------------------------------------------------
(* Calls of the compositors.                                               *)

\* A Signal of n rows with samples that are all different and not zero.
Sig(n, base) == [k \in 1..n |-> <<base + 2 * k, -(base + 2 * k + 1)>>]

SigSet == {Sig(n, base) : n \in 0..MaxLen, base \in {100, 300}}

CallAddSounds ==
    /\ Idle
    /\ \E snd1 \in SigSet, snd2 \in SigSet, delay \in DurSet, fs \in FsSet :
        Called("addSounds", <<snd1, snd2, delay, fs>>,
               <<snd1, snd2>>, <<snd1, snd2>>,
               addSounds(snd1, snd2, delay, fs))

\* The lists of n Signals, the i-th of them built on the base 100*i.
RECURSIVE SndLists(_)
SndLists(n) ==
    IF n = 0 THEN {<<>>}
    ELSE {Append(l, Sig(len, 100 * n)) : l \in SndLists(n - 1), len \in 0..MaxLen}

CallJoinSndISI ==
    /\ Idle
    /\ \E n \in 1..3, fs \in FsSet :
        \E sndList \in SndLists(n), ISIList \in [1..(n - 1) -> DurSet] :
            Called("joinSndISI", <<sndList, ISIList, fs>>,
                   sndList, sndList,
                   joinSndISI(sndList, ISIList, fs))

NextMix ==
    \/ CallAddSounds
    \/ CallJoinSndISI

SpecMix == Init /\ [][NextMix]_vars

----------------------------------------------------------------------------
(* Claims about the compositors.                                           *)

\* delayPoint = round(delay/1000*fs)
DelayPoint == Round(Arg("delay") * Arg("fs"), 1000)

\* C3: the length of addSounds(snd1, snd2, delay, fs) is
\* max(len(snd1), delayPoint + len(snd2)), in the overlap branch and in the
\* silence-gap branch alike.
C3_AddSoundsLength ==
    op = "addSounds" =>
        /\ Err(ret) = "none"
        /\ Len(Snd(ret)) = Max(Len(Arg("snd1")), DelayPoint + Len(Arg("snd2")))

\* The sample of snd at the Python index j, zero outside the Signal.
SampleOrZero(snd, j) == IF 0 <= j /\ j < Len(snd) THEN snd[j + 1] ELSE <<0, 0>>

\* C4: every output sample k of addSounds is s1(k) + s2(k - delayPoint),
\* each taken as zero outside its Signal.
C4_AddSoundsSamples ==
    op = "addSounds" =>
        \A k \in 0..(Len(Snd(ret)) - 1) :
            Snd(ret)[k + 1] =
                <<SampleOrZero(Arg("snd1"), k)[1]
                    + SampleOrZero(Arg("snd2"), k - DelayPoint)[1],
                  SampleOrZero(Arg("snd1"), k)[2]
                    + SampleOrZero(Arg("snd2"), k - DelayPoint)[2]>>

\* The number of zero rows joinSndISI puts after sound i.
SilenceAfter(i) ==
    IF i < Len(Arg("sndList")) THEN Round(Arg("ISIList")[i] * Arg("fs"), 1000) ELSE 0

\* The output index (from 0) at which sound i starts.
RECURSIVE RegionStart(_)
RegionStart(i) ==
    IF i = 1 THEN 0
    ELSE RegionStart(i - 1) + Len(Arg("sndList")[i - 1]) + SilenceAfter(i - 1)

\* C5: joinSndISI of N >= 1 Signals and N-1 intervals has the length of all
\* sounds plus round(ISI_i/1000*fs) for each interval; sound i is copied
\* unchanged to its own region, the regions follow the list order and do not
\* overlap, and every sample between two consecutive sounds is zero.
C5_JoinSndISILayout ==
    op = "joinSndISI" =>
        LET N == Len(Arg("sndList"))
            out == Snd(ret)
        IN  /\ Err(ret) = "none"
            /\ Len(out) = RegionStart(N) + Len(Arg("sndList")[N])
            /\ \A i \in 1..N :
                 /\ \A k \in 1..Len(Arg("sndList")[i]) :
                      out[RegionStart(i) + k] = Arg("sndList")[i][k]
                 /\ \A k \in 1..SilenceAfter(i) :
                      out[RegionStart(i) + Len(Arg("sndList")[i]) + k] = <<0, 0>>

C5_Witness ==
    /\ op = "joinSndISI"
    /\ Len(Arg("sndList")) = 3
    /\ \A i \in 1..3 : Len(Arg("sndList")[i]) = 2
    /\ Arg("fs") = 500
    /\ Arg("ISIList") = <<3, 5>>
    /\ Len(Snd(ret)) = 10
    /\ Snd(ret)[5] = Sig(2, 200)[1]

----------------------------------------------------------------------------
(* Calls of the transforms.                                                *)

\* A call of a function that works on the caller's array sig: r is
\* <<err, sig after the call>>, and the array is also what is returned.
CalledInPlace(name, a, sig, r) ==
    Called(name, a, <<sig>>, <<r[2]>>,
           IF r[1] = "none" THEN Ok(r[2]) ELSE Raise(r[1]))

CallGate ==
    /\ Idle
    /\ \E ramps \in RampSet, sig \in SigSet, fs \in FsSet :
        CalledInPlace("gate", <<ramps, sig, fs>>, sig, gate(ramps, sig, fs))

CallMakePink ==
    /\ Idle
    /\ \E sig \in SigSet, fs \in FsSet :
        CalledInPlace("makePink", <<sig, fs>>, sig, makePink(sig, fs))

CallMakePinkRef ==
    /\ Idle
    /\ \E sig \in SigSet, fs \in FsSet, refHz \in {500, 1000} :
        CalledInPlace("makePinkRef", <<sig, fs, refHz>>, sig,
                      makePinkRef(sig, fs, refHz))

\* The corner frequencies of a lowpass, a bandpass and a highpass filter,
\* a lowpass with its corners in the wrong order, and the highpass of the
\* docstring's example, with f1 = f2 = 0 and f3, f4 at and above fs/2.
FilterSet ==
    {<<0, 0, 100, 200>>, <<50, 100, 150, 200>>, <<100, 200, 500, 600>>,
     <<0, 0, 200, 100>>, <<0, 0, 24000, 26000>>}

\* The sampling rates of the calls of fir2Filt: that of the docstring's
\* examples besides the small ones.
FilterFsSet == FsSet \cup {48000}

CallFir2Filt ==
    /\ Idle
    /\ \E f \in FilterSet, snd \in SigSet \cup {Sig(NTaps, 100)},
          fs \in FilterFsSet :
        Called("fir2Filt", <<f[1], f[2], f[3], f[4], snd, fs>>,
               <<snd>>, <<snd>>,
               fir2Filt(f[1], f[2], f[3], f[4], snd, fs))

CallPhaseShift ==
    /\ Idle
    /\ \E sig \in SigSet, f1 \in {0, 125, 250}, f2 \in {125, 250, 500},
          phase_shift \in {<<1, 1>>, <<1, 2>>},
          channel \in {"Left", "Right", "Both", "Mono"}, fs \in FsSet :
        Called("phaseShift", <<sig, f1, f2, phase_shift, channel, fs>>,
               <<sig>>, <<sig>>,
               phaseShift(sig, f1, f2, phase_shift, channel, fs))

\* The outer call of phaseShift(phaseShift(sig, f1, f2, shift, channel, fs),
\* f1, f2, -shift, channel, fs): it is handed what the inner call returned.
\* args stays that of the inner call, so that Arg("sig") is the first input.
CallPhaseShiftBack ==
    /\ op = "phaseShift"
    /\ Err(ret) = "none"
    /\ Called("phaseShiftBack", args, <<Snd(ret)>>, <<Snd(ret)>>,
              phaseShift(Snd(ret), Arg("f1"), Arg("f2"),
                         <<-Arg("phase_shift")[1], Arg("phase_shift")[2]>>,
                         Arg("channel"), Arg("fs")))

CallImposeLevelGlide ==
    /\ Idle
    /\ \E sig \in SigSet, deltaL \in {-20, 0, 20}, startTime \in 0..2,
          endTime \in DurSet, channel \in {"Left", "Right", "Both", "Mono"},
          fs \in FsSet :
        Called("imposeLevelGlide",
               <<sig, deltaL, startTime, endTime, channel, fs>>,
               <<sig>>, <<sig>>,
               imposeLevelGlide(sig, deltaL, startTime, endTime, channel, fs))

CallScale ==
    /\ Idle
    /\ \E level \in {-20, 0, 20}, sig \in SigSet :
        Called("scale", <<level, sig>>, <<sig>>, <<sig>>, scale(level, sig))

\* The orders numpy.random.shuffle can leave n components in.
Shuffles(n) ==
    {q \in [1..n -> 1..n] : \A i, j \in 1..n : q[i] = q[j] => i = j}

\* The frequencies, levels and phases of the components of a chord.
ChordFreqs == <<125, 250, 375, 500>>

ChordLevels == <<100, 80, 100, 80>>

ChordPhases == <<<<0, 1>>, <<1, 2>>, <<1, 1>>, <<0, 1>>>>

CallMakeAsynchChord ==
    /\ Idle
    /\ \E n \in 0..MaxLen, tonesDuration \in DurSet, tonesRamps \in {0, 1},
          tonesChannel \in {"Left", "Both", "Mono"}, SOA \in 0..MaxDur,
          fs \in FsSet, maxLevel \in MaxLevelSet :
        \E seq \in Shuffles(n) :
            Generated("makeAsynchChord",
                <<SubSeq(ChordFreqs, 1, n), SubSeq(ChordLevels, 1, n),
                  SubSeq(ChordPhases, 1, n), tonesDuration, tonesRamps,
                  tonesChannel, SOA, fs, maxLevel, seq>>,
                makeAsynchChord(SubSeq(ChordFreqs, 1, n), SubSeq(ChordLevels, 1, n),
                                SubSeq(ChordPhases, 1, n), tonesDuration,
                                tonesRamps, tonesChannel, SOA, fs, maxLevel, seq))

SpecChord == Init /\ [][CallMakeAsynchChord]_vars

\* A duration in milliseconds long enough, at the lower sampling rate, for
\* the bin of 10 Hz not to be bin 0.
HugginsLongDur == 34

\* The durations of the calls of makeHuggins: the short ones and the long one.
HugginsDurSet == {0, 1, MaxDur, HugginsLongDur}

CallMakeHuggins ==
    /\ Idle
    /\ \E F0 \in {50, 100}, lowHarm \in 1..MaxHarm, highHarm \in 1..MaxHarm,
          spectrumLevel \in {100}, bandwidth \in {20},
          phaseRelationship \in {"NoSpi", "NpiSo"},
          noiseType \in {"White", "Pink"},
          duration \in HugginsDurSet, ramp \in {0, 1},
          fs \in FsSet, maxLevel \in MaxLevelSet, seed \in {1} :
        /\ lowHarm <= highHarm
        /\ duration = HugginsLongDur => fs = 500
        /\ Generated("makeHuggins",
              <<F0, lowHarm, highHarm, spectrumLevel, bandwidth,
                phaseRelationship, noiseType, duration, ramp, fs, maxLevel,
                seed>>,
              makeHuggins(F0, lowHarm, highHarm, spectrumLevel, bandwidth,
                          phaseRelationship, noiseType, duration, ramp, fs,
                          maxLevel, seed))

\* makeHuggins and the phase shifts it is made of.
NextHuggins ==
    \/ CallMakeHuggins
    \/ CallPhaseShift

SpecHuggins == Init /\ [][NextHuggins]_vars

\* The noise of makeSimpleDichotic has components an octave apart from
\* 50 Hz, none, four or five of them; the bands are empty, an octave or
\* two octaves wide.
CallMakeSimpleDichotic ==
    /\ Idle
    /\ \E F0 \in {100}, lowHarm \in 1..MaxHarm, highHarm \in 1..MaxHarm,
          cmpLevel \in {100}, lowFreq \in {50}, highFreq \in {50, 800, 1600},
          spacing \in {1200}, sigBandwidth \in {0, 1200, 2400},
          phaseRelationship \in {"NoSpi", "NpiSo"},
          dichoticDifference \in {"IPD", "ITD", "Level"},
          itd \in {2500}, ipd \in {<<1, 1>>, <<1, 2>>},
          narrowBandCmpLevel \in {80}, duration \in {1, MaxDur},
          ramp \in {0, 1}, fs \in FsSet, maxLevel \in MaxLevelSet,
          seed \in {1}, floatIndex \in {"refused", "truncated"} :
        /\ lowHarm <= highHarm
        /\ Generated("makeSimpleDichotic",
              <<F0, lowHarm, highHarm, cmpLevel, lowFreq, highFreq, spacing,
                sigBandwidth, phaseRelationship, dichoticDifference, itd, ipd,
                narrowBandCmpLevel, duration, ramp, fs, maxLevel, seed,
                floatIndex>>,
              makeSimpleDichotic(F0, lowHarm, highHarm, cmpLevel, lowFreq,
                                 highFreq, spacing, sigBandwidth,
                                 phaseRelationship, dichoticDifference, itd, ipd,
                                 narrowBandCmpLevel, duration, ramp, fs,
                                 maxLevel, seed, floatIndex))

SpecDichotic == Init /\ [][CallMakeSimpleDichotic]_vars

\* The calls that are handed Signals.
NextSig ==
    \/ CallGate
    \/ CallMakePink
    \/ CallMakePinkRef
    \/ CallFir2Filt
    \/ CallPhaseShift
    \/ CallImposeLevelGlide
    \/ CallScale
    \/ CallAddSounds
    \/ CallJoinSndISI

SpecSig == Init /\ [][NextSig]_vars

\* A phase shift and the opposite phase shift of its result.
NextShift ==
    \/ CallPhaseShift
    \/ CallPhaseShiftBack

SpecShift == Init /\ [][NextShift]_vars

\* The calls that take a channel selector.
NextSel ==
    \/ NextGen
    \/ CallPhaseShift
    \/ CallImposeLevelGlide

SpecSel == Init /\ [][NextSel]_vars

----------------------------------------------------------------------------
(* Claims about the selectors and about the caller's arrays.               *)

\* The functions that take a channel selector.
ChannelFunctions ==
    {"pureTone", "binauralPureTone", "AMTone", "FMTone", "expSinFMTone",
     "chirp", "complexTone", "broadbandNoise", "steepNoise",
     "pinkNoiseFromSin", "phaseShift", "imposeLevelGlide"}

\* The exceptions that report an invalid argument.
InvalidArgumentErrors == {"TypeError", "ValueError"}

\* A selector of the call has a value the function has no branch for.
UnrecognisedSelector ==
    /\ op \in ChannelFunctions
    /\ \/ Arg("channel") \notin RecognisedChannels(op)
       \/ /\ op = "binauralPureTone"
          /\ \/ Arg("itdRef") \notin {"Right", "Left", "None"}
             \/ Arg("ildRef") \notin {"Right", "Left", "None"}

\* C6: every function that takes a channel selector ends in an
\* invalid-argument error when the channel is not one of its recognised
\* values, and so does binauralPureTone for an unrecognised itdRef or
\* ildRef; none returns a Signal (of zeros) instead.
C6_SelectorsRejected ==
    UnrecognisedSelector => Err(ret) \in InvalidArgumentErrors

\* nRamp of the gate call
GateNRamp == Round(Arg("ramps") * Arg("fs"), 1000)

\* C8: gate changes only the first nRamp and the last nRamp samples: when
\* 2*nRamp <= nTot every sample with index in [nRamp, nTot - nRamp) is
\* unchanged in both columns, and when nRamp = 0 the call raises no error
\* and every sample of the result equals the input sample.
C8_GateFrame ==
    (op = "gate" /\ 2 * GateNRamp <= Len(inp[1])) =>
        /\ Err(ret) = "none"
        /\ Len(mem[1]) = Len(inp[1])
        /\ Snd(ret) = mem[1]
        /\ \A k \in GateNRamp..(Len(inp[1]) - GateNRamp - 1) :
             mem[1][k + 1] = inp[1][k + 1]
        /\ GateNRamp = 0 => mem[1] = inp[1]

\* gate with ramps that leave a middle: the ramps changed a sample, the
\* middle is there.
C8_Witness ==
    /\ op = "gate"
    /\ GateNRamp = 1
    /\ Len(inp[1]) = 3
    /\ mem[1][1] # inp[1][1]
    /\ mem[1][2] = inp[1][2]

\* The transforms and compositors other than gate.
NotGate ==
    {"fir2Filt", "phaseShift", "makePink", "makePinkRef", "imposeLevelGlide",
     "scale", "addSounds", "joinSndISI"}

\* C10: no transform or compositor other than gate modifies a Signal the
\* caller passed in: when the call has returned every input Signal holds
\* the samples it held before the call.
C10_InputsUntouched ==
    op \in NotGate => mem = inp

----------------------------------------------------------------------------
(* complexToneParallel: the caller's thread submits one pureTone task per  *)
(* harmonic to a pool of worker processes; each result is appended to tn   *)
(* when its task is done, in the order the tasks happen to finish.         *)

\* Positions in the argument tuple of complexTone and complexToneParallel.
ParArg(name) ==
    pargs[CHOOSE i \in DOMAIN Signature("complexToneParallel") :
              Signature("complexToneParallel")[i] = name]

\* The for loop over the harmonics: every task is submitted with
\* pool.apply_async.  With a channel or harmPhase that has no branch the
\* first pass of the loop reads an unbound local.
ParSubmit ==
    /\ Idle
    /\ \E F0 \in {125}, harmPhase \in HarmPhaseSet,
          lowHarm \in 1..MaxHarm, highHarm \in 1..MaxHarm,
          stretch \in {0}, level \in {100},
          duration \in {0, MaxDur}, ramp \in {0, 1},
          channel \in ChannelSet,
          fs \in FsSet, maxLevel \in MaxLevelSet, rnd \in RndSet :
        /\ lowHarm <= highHarm
        /\ harmPhase # "Random" => rnd = [i \in 1..MaxHarm |-> PhaseDraw(1, i)]
        /\ pargs' = <<F0, harmPhase, lowHarm, highHarm, stretch, level,
                      duration, ramp, channel, fs, maxLevel, rnd>>
        /\ tn' = <<>>
        /\ psnd' = zeros(nTotOf(msToSamples(duration, fs), msToSamples(ramp, fs)))
        /\ IF channel \in {"Right", "Left", "Both", "Odd Left", "Odd Right"}
           THEN /\ queue' = {parallelTask(i, F0, harmPhase, highHarm, stretch,
                                          level, duration, ramp, channel, fs,
                                          maxLevel, rnd) : i \in lowHarm..highHarm}
                /\ ppc' = "submitted"
                /\ UNCHANGED callVars
           ELSE /\ queue' = {}
                /\ ppc' = "done"
                /\ op' = "complexToneParallel"
                /\ args' = pargs'
                /\ ret' = Raise("UnboundLocalError")
                /\ UNCHANGED <<inp, mem, warned>>

\* A worker finishes one task and the pool calls tn.append with its
\* result; a task that raised has no result to append.
ParTaskDone ==
    /\ ppc = "submitted"
    /\ \E t \in queue :
        LET r == pureTone(t[1], t[2], t[3], t[4], t[5], t[6], t[7], t[8])
        IN  /\ queue' = queue \ {t}
            /\ tn' = IF Err(r) = "none" THEN Append(tn, Snd(r)) ELSE tn
    /\ UNCHANGED <<ppc, pargs, psnd, callVars>>

\* A join that returns while tasks are still running.
ParJoin_NoWait ==
    /\ ppc = "submitted"
    /\ ppc' = "joined"
    /\ UNCHANGED <<pargs, queue, tn, psnd, callVars>>

\* pool.close(); pool.join(): returns when every task is done.
ParJoin ==
    /\ ppc = "submitted"
    /\ queue = {}
    /\ ppc' = "joined"
    /\ UNCHANGED <<pargs, queue, tn, psnd, callVars>>

\* The results are summed and the sum is returned.
ParReturn ==
    /\ ppc = "joined"
    /\ ppc' = "done"
    /\ psnd' = sumResults(psnd, tn)
    /\ op' = "complexToneParallel"
    /\ args' = pargs
    /\ ret' = Ok(psnd')
    /\ UNCHANGED <<pargs, queue, tn, inp, mem, warned>>

NextPar ==
    \/ ParSubmit
    \/ ParTaskDone
    \/ ParJoin
    \/ ParReturn

SpecPar == Init /\ [][NextPar]_vars

\* What complexTone returns for the arguments of the parallel call.
SequentialResult ==
    complexTone(Arg("F0"), Arg("harmPhase"), Arg("lowHarm"), Arg("highHarm"),
                Arg("stretch"), Arg("level"), Arg("duration"), Arg("ramp"),
                Arg("channel"), Arg("fs"), Arg("maxLevel"), Arg("rnd"))

\* C7: complexToneParallel and complexTone are interchangeable: for every
\* harmPhase, every channel in Left, Right, Both, Odd Left, Odd Right and
\* every harmonic i, the starting phase of harmonic i is the same in both
\* functions, and both return the same Signal.
C7_ParallelEqualsSequential ==
    (/\ op = "complexToneParallel"
     /\ Arg("channel") \in {"Left", "Right", "Both", "Odd Left", "Odd Right"}) =>
        /\ \A i \in Arg("lowHarm")..Arg("highHarm") :
             thisPhase(Arg("harmPhase"), i, Arg("highHarm"), Arg("rnd"))
               = complexTonePhase(Arg("harmPhase"), i, Arg("highHarm"), Arg("rnd"))
        /\ ret = SequentialResult

----------------------------------------------------------------------------
(* Claims about phaseShift.                                                *)

\* A phaseShift call that ran one of its channel branches to the end.
PhaseShifted ==
    /\ op = "phaseShift"
    /\ Arg("channel") \in {"Left", "Right", "Both"}
    /\ Err(ret) = "none"

\* N, the FFT size of the call, and the first and last bin of the band.
ShiftN == 2 ^ nextpow2(Len(Arg("sig")))

ShiftStart == Round(Arg("f1") * ShiftN, Arg("fs"))

ShiftEnd == Round(Arg("f2") * ShiftN, Arg("fs"))

\* The column of the input the call works on (the Left one for 'Both').
ShiftColumn == Column(Arg("sig"), IF Arg("channel") = "Right" THEN 2 ELSE 1)

\* The bin turned by the angle shift: same magnitude, phase plus shift.
Rotated(bin, shift) ==
    <<(bin[1] * CosPi(shift[1], shift[2]) - bin[2] * SinPi(shift[1], shift[2])) \div 100,
      (bin[1] * SinPi(shift[1], shift[2]) + bin[2] * CosPi(shift[1], shift[2])) \div 100>>

\* Two bins that differ by no more than the rounding of the arithmetic.
SameBin(a, b) == Abs(a[1] - b[1]) <= 2 /\ Abs(a[2] - b[2]) <= 2

\* C11: every bin k of the band [round(f1*N/fs), round(f2*N/fs)] leaves
\* phaseShift with the magnitude of the input bin and its phase plus
\* shift, every mirror bin N - k with the phase of the input bin minus
\* shift (bins that are in the band and mirror bins at once left aside).
C11_BinsShifted ==
    PhaseShifted =>
        LET input == fft(ShiftColumn, ShiftN)
            output == phaseShiftBins(ShiftColumn, ShiftN, ShiftStart, ShiftEnd,
                                     Arg("phase_shift"))
            minus == <<-Arg("phase_shift")[1], Arg("phase_shift")[2]>>
        IN  \A k \in ShiftStart..ShiftEnd :
                (ShiftN - k) \notin ShiftStart..ShiftEnd =>
                    /\ SameBin(output[k + 1], Rotated(input[k + 1], Arg("phase_shift")))
                    /\ SameBin(output[ShiftN - k + 1],
                               Rotated(input[ShiftN - k + 1], minus))

\* C12: shifting the phases of a band by shift and those of the result by
\* -shift, with the same f1, f2, channel and fs, gives back the input,
\* sample by sample (up to the rounding of the arithmetic).
C12_ShiftAndBack ==
    (op = "phaseShiftBack" /\ Err(ret) = "none") =>
        /\ Len(Snd(ret)) = Len(Arg("sig"))
        /\ \A k \in 1..Len(Arg("sig")) : \A c \in 1..2 :
               Abs(Snd(ret)[k][c] - Arg("sig")[k][c]) <= 2

\* C13: the FFT size of phaseShift, 2**nextpow2(nSamples), is the smallest
\* power of two that is not below nSamples, and nextpow2(511) = 9; a call
\* that returns gives exactly nSamples rows, and with channel 'Left' (resp.
\* 'Right') the Right (resp. Left) column is that of the input.
C13_SizeAndFrame ==
    /\ nextpow2(511) = 9
    /\ PhaseShifted =>
        LET nSamples == Len(Arg("sig"))
            bins == phaseShiftBins(ShiftColumn, ShiftN, ShiftStart, ShiftEnd,
                                   Arg("phase_shift"))
        IN  /\ Len(bins) = ShiftN
            /\ ShiftN >= nSamples
            /\ \A q \in 0..nSamples : 2 ^ q >= nSamples => 2 ^ q >= ShiftN
            /\ Len(Snd(ret)) = nSamples
            /\ Arg("channel") = "Left" => Column(Snd(ret), 2) = Column(Arg("sig"), 2)
            /\ Arg("channel") = "Right" => Column(Snd(ret), 1) = Column(Arg("sig"), 1)

\* A 'Left' call on three samples returned and changed the Left column.
C13_Witness ==
    /\ PhaseShifted
    /\ Arg("channel") = "Left"
    /\ Len(Arg("sig")) = MaxLen
    /\ Column(Snd(ret), 1) # Column(Arg("sig"), 1)

----------------------------------------------------------------------------
(* Claims about fir2Filt.                                                  *)

\* The points of a lowpass (flat from 0 to f3, falling from f3 to f4), of a
\* highpass (rising from f1 to f2, flat up to the Nyquist frequency) and of
\* a bandpass (rising from f1 to f2, falling from f3 to f4, with one more
\* point half way between f2 and f3).
LowpassPoints(f3, f4, fs) ==
    << <<<<0, 1>>, Fraction(2 * f3, fs), Fraction(2 * f4, fs), <<1, 1>>>>,
       <<100000, 100000, 3, 0>> >>

HighpassPoints(f1, f2, fs) ==
    << <<<<0, 1>>, Fraction(2 * f1, fs), Fraction(2 * f2, fs),
         <<999999, 1000000>>, <<1, 1>>>>,
       <<0, 3, 100000, 100000, 0>> >>

BandpassPoints(f1, f2, f3, f4, fs) ==
    << <<<<0, 1>>, Fraction(2 * f1, fs), Fraction(2 * f2, fs),
         Fraction(f2 + f3, fs), Fraction(2 * f3, fs), Fraction(2 * f4, fs),
         <<1, 1>>>>,
       <<0, 3, 100000, 100000, 100000, 3, 0>> >>

\* The Signal filtered with the taps of the given kind of filter.
FilteredWith(band, snd) ==
    [k \in 1..Len(snd) |-> <<convolveSame(Column(snd, 1), firwin2(band))[k],
                             convolveSame(Column(snd, 2), firwin2(band))[k]>>]

C15_HighpassAtNyquist ==
    (op = "fir2Filt" /\ 2 * Arg("f3") >= Arg("fs") /\ 2 * Arg("f4") >= Arg("fs")) =>
        /\ fir2FiltBand(Arg("f2"), Arg("f3"), Arg("fs")) = "highpass"
        /\ fir2FiltPoints(Arg("f1"), Arg("f2"), Arg("f3"), Arg("f4"), Arg("fs"))
             = HighpassPoints(Arg("f1"), Arg("f2"), Arg("fs"))

\* C16: for a Signal of any length n >= 1, shorter than the 256 taps or
\* not, a call of fir2Filt whose filter can be designed returns a Signal
\* of n rows, each column the 'same'-mode convolution of the input column
\* with the taps.
C16_AnyLengthFiltered ==
    (/\ op = "fir2Filt"
     /\ Len(Arg("snd")) >= 1
     /\ fir2FiltPointsValid(Arg("f1"), Arg("f2"), Arg("f3"), Arg("f4"), Arg("fs"))) =>
        /\ Err(ret) = "none"
        /\ Len(Snd(ret)) = Len(Arg("snd"))
        /\ \A c \in 1..2 : \A k \in 1..Len(Arg("snd")) :
               Snd(ret)[k][c]
                 = convolveSame(Column(Arg("snd"), c),
                                firwin2(fir2FiltBand(Arg("f2"), Arg("f3"), Arg("fs"))))[k]

----------------------------------------------------------------------------
(* Claims about imposeLevelGlide.                                          *)

\* startPnt and endPnt of the call, round(ms/1000*fs).
GlideStart == Round(Arg("startTime") * Arg("fs"), 1000)

GlideEnd == Round(Arg("endTime") * Arg("fs"), 1000)

\* The columns (1 = Left, 2 = Right) the selector names.
Selected(channel) ==
    IF channel = "Left" THEN {1}
    ELSE IF channel = "Right" THEN {2}
    ELSE IF channel = "Both" THEN {1, 2}
    ELSE {}

\* The multiplier of the sample at index k (from 0), in hundredths: 1 below
\* startPnt, endAmp = 10^(deltaL/20) from endPnt on, and in between the
\* raised cosine that falls from 1 towards endAmp.
GlideMultiplier(k) ==
    LET endAmp == AmpOfDb(Arg("deltaL"))
    IN  IF k < GlideStart THEN 100
        ELSE IF k >= GlideEnd THEN endAmp
        ELSE IF k = GlideStart THEN 100
        ELSE (100 + endAmp) \div 2
               + ((100 - endAmp) * CosPi(k - GlideStart, GlideEnd - GlideStart)) \div 200

\* C17: with deltaL = 0 imposeLevelGlide returns the samples it was given;
\* with deltaL # 0 and 0 <= startPnt <= endPnt <= len(sig) it returns, and
\* each sample of the selected channel(s) is the input sample times 1 below
\* startPnt, times endAmp at and above endPnt, and times the raised-cosine
\* ramp (1 at startPnt) in between.
C17_LevelGlide ==
    op = "imposeLevelGlide" =>
        /\ Arg("deltaL") = 0 => (Err(ret) = "none" /\ Snd(ret) = Arg("sig"))
        /\ (/\ Arg("deltaL") # 0
            /\ 0 <= GlideStart
            /\ GlideStart <= GlideEnd
            /\ GlideEnd <= Len(Arg("sig"))) =>
               /\ Err(ret) = "none"
               /\ Len(Snd(ret)) = Len(Arg("sig"))
               /\ \A c \in Selected(Arg("channel")) : \A k \in 1..Len(Arg("sig")) :
                      Abs(Snd(ret)[k][c]
                            - (Arg("sig")[k][c] * GlideMultiplier(k - 1)) \div 100) <= 1

\* A glide over two samples that starts after the first one was imposed
\* on both channels of three or more samples.
C17_Witness ==
    /\ op = "imposeLevelGlide"
    /\ Err(ret) = "none"
    /\ Arg("deltaL") # 0
    /\ Arg("channel") = "Both"
    /\ GlideStart = 1
    /\ GlideEnd = 3
    /\ Len(Arg("sig")) >= 3
    /\ Snd(ret)[2] = Arg("sig")[2]
    /\ Snd(ret)[3] # Arg("sig")[3]

\* C18: with deltaL # 0 and channel 'Right' (resp. 'Left') the Left (resp.
\* Right) column of what imposeLevelGlide returns is that of the input.
C18_OtherChannelKept ==
    (op = "imposeLevelGlide" /\ Arg("deltaL") # 0 /\ Err(ret) = "none") =>
        /\ Arg("channel") = "Right" => Column(Snd(ret), 1) = Column(Arg("sig"), 1)
        /\ Arg("channel") = "Left" => Column(Snd(ret), 2) = Column(Arg("sig"), 2)

----------------------------------------------------------------------------
(* Claims about binauralPureTone.                                          *)

\* A call of binauralPureTone whose three selectors are recognised.
BinauralCalled ==
    /\ op = "binauralPureTone"
    /\ Arg("channel") \in {"Right", "Left", "Both"}
    /\ Arg("itdRef") \in {"Right", "Left", "None"}
    /\ Arg("ildRef") \in {"Right", "Left", "None"}

\* What the call would have returned had it been given the interaural
\* differences itd and ild instead of its own.
BinauralWith(itd, ild) ==
    binauralPureTone(Arg("frequency"), Arg("phase"), Arg("level"),
                     Arg("duration"), Arg("ramp"), Arg("channel"),
                     itd, Arg("itdRef"), ild, Arg("ildRef"),
                     Arg("fs"), Arg("maxLevel"))

\* The call was asked for a time, respectively a level, difference without
\* being told the reference ear.
ItdWithoutRef == Arg("itd") # 0 /\ Arg("itdRef") = "None"

IldWithoutRef == Arg("ild") # 0 /\ Arg("ildRef") = "None"

\* C19: a call of binauralPureTone with itd # 0 and no itdRef, or ild # 0
\* and no ildRef, does not raise; it warns and returns what it returns
\* without that difference, and with channel 'Both' the two columns have
\* the same phase, respectively the same amplitude (the same samples when
\* no other difference is applied).
C19_DifferenceWithoutRef ==
    BinauralCalled =>
        /\ ItdWithoutRef =>
              /\ Err(ret) = "none"
              /\ "itd" \in warned
              /\ ret = BinauralWith(0, Arg("ild"))
              /\ (Arg("channel") = "Both" /\ (Arg("ild") = 0 \/ Arg("ildRef") = "None")) =>
                     Column(Snd(ret), 1) = Column(Snd(ret), 2)
        /\ IldWithoutRef =>
              /\ Err(ret) = "none"
              /\ "ild" \in warned
              /\ ret = BinauralWith(Arg("itd"), 0)
              /\ (Arg("channel") = "Both" /\ (Arg("itd") = 0 \/ Arg("itdRef") = "None")) =>
                     Column(Snd(ret), 1) = Column(Snd(ret), 2)
        /\ (~ItdWithoutRef /\ ~IldWithoutRef) => warned = {}

\* A 'Both' call with both differences and neither reference returned a
\* sounding tone, the same in both columns, and gave both warnings.
C19_Witness ==
    /\ BinauralCalled
    /\ Arg("channel") = "Both"
    /\ ItdWithoutRef
    /\ IldWithoutRef
    /\ warned = {"itd", "ild"}
    /\ Err(ret) = "none"
    /\ Column(Snd(ret), 1) = Column(Snd(ret), 2)
    /\ ~IsZeroColumn(Snd(ret), 1)

\* The Signal of the pure tone of the call's frequency, duration, ramp, fs
\* and maxLevel with the given starting phase and level in one channel.
ToneOf(phase, level, channel) ==
    Snd(pureTone(Arg("frequency"), phase, level, Arg("duration"), Arg("ramp"),
                 channel, Arg("fs"), Arg("maxLevel")))

\* The interaural phase difference of the call, itdtoipd(itd/1000000, frequency).
CallIpd == itdtoipd(Arg("itd"), Arg("frequency"))

\* C20: with channel 'Both' the ear that is not the reference gets the
\* difference: ildRef 'Right' gives the Right column the level 'level' and
\* the Left column level + ild (the reverse for 'Left'); itdRef 'Right'
\* gives the Right column the phase 'phase' and the Left column phase + ipd
\* (the reverse for 'Left').  With channel 'Left' or 'Right' the other
\* column is zero and itd and ild change nothing.
C20_DifferenceOnOtherEar ==
    (BinauralCalled /\ Err(ret) = "none") =>
        LET phase == Arg("phase")
            level == Arg("level")
            shifted == PhaseAdd(phase, CallIpd)
            louder == level + Arg("ild")
            leftPhase == IF Arg("itdRef") = "Right" THEN shifted ELSE phase
            rightPhase == IF Arg("itdRef") = "Left" THEN shifted ELSE phase
            leftLevel == IF Arg("ildRef") = "Right" THEN louder ELSE level
            rightLevel == IF Arg("ildRef") = "Left" THEN louder ELSE level
        IN  IF Arg("channel") = "Both"
            THEN /\ Column(Snd(ret), 1)
                      = Column(ToneOf(leftPhase, leftLevel, "Left"), 1)
                 /\ Column(Snd(ret), 2)
                      = Column(ToneOf(rightPhase, rightLevel, "Right"), 2)
            ELSE /\ Snd(ret) = ToneOf(phase, level, Arg("channel"))
                 /\ IsZeroColumn(Snd(ret), IF Arg("channel") = "Left" THEN 2 ELSE 1)

\* A 'Both' call with reference 'Right' for both differences returned a
\* Left column that is neither the Right one nor the tone without the
\* phase difference.
C20_Witness ==
    /\ BinauralCalled
    /\ Err(ret) = "none"
    /\ Arg("channel") = "Both"
    /\ Arg("itd") # 0
    /\ Arg("itdRef") = "Right"
    /\ Arg("ild") # 0
    /\ Arg("ildRef") = "Right"
    /\ Column(Snd(ret), 1) # Column(Snd(ret), 2)
    /\ Column(Snd(ret), 1)
         # Column(ToneOf(Arg("phase"), Arg("level") + Arg("ild"), "Left"), 1)
    /\ Column(Snd(ret), 2) = Column(ToneOf(Arg("phase"), Arg("level"), "Right"), 2)

----------------------------------------------------------------------------
(* Claims about the odd/even channel modes.                                *)

\* The column (1 = Left, 2 = Right) harmonic i belongs to in the odd/even
\* modes: 'Odd Right' puts the odd harmonics right and the even ones left,
\* 'Odd Left' the opposite.
EarOf(channel, i) ==
    IF (channel = "Odd Right") = (i % 2 = 1) THEN 2 ELSE 1

\* What harmonic i alone contributes to complexTone's sum at sample k.
HarmonicAt(i, k) ==
    SinAt((Arg("F0") * i) + (Arg("F0") * Arg("stretch")) \div 100, k - 1, Arg("fs"),
          complexTonePhase(Arg("harmPhase"), i, Arg("highHarm"), Arg("rnd")))

\* The gated sum of the harmonics of lowHarm..highHarm that belong to the
\* column col, as complexTone writes a column.
HarmonicsOfEar(col) ==
    LET nSamples == msToSamples(Arg("duration"), Arg("fs"))
        nRamp == msToSamples(Arg("ramp"), Arg("fs"))
        nTot == nTotOf(nSamples, nRamp)
        sum == [k \in 1..nTot |->
                  SumOver(Arg("lowHarm"), Arg("highHarm"),
                      [i \in Arg("lowHarm")..Arg("highHarm") |->
                          IF EarOf(Arg("channel"), i) = col
                          THEN HarmonicAt(i, k) ELSE 0])]
    IN  Column(WriteRamped(zeros(nTot), col, AmpOfDb(Arg("level") - Arg("maxLevel")),
                           nRamp, nSamples, sum), col)

\* The noise band of harmonic i, made on its own in the Left channel.
BandAlone(i) ==
    Column(Snd(steepNoise(i * Arg("F0") - Arg("bandwidth") \div 2,
                          i * Arg("F0") + Arg("bandwidth") \div 2,
                          Arg("level"), Arg("duration"), Arg("ramp"), "Left",
                          Arg("fs"), Arg("maxLevel"), Arg("seed") + i)), 1)

\* The sum of the noise bands of the harmonics that belong to column col.
BandsOfEar(col) ==
    [k \in 1..Len(Snd(ret)) |->
        SumOver(Arg("lowHarm"), Arg("highHarm"),
            [i \in Arg("lowHarm")..Arg("highHarm") |->
                IF EarOf(Arg("channel"), i) = col THEN BandAlone(i)[k] ELSE 0])]

\* C21: in complexTone and in harmComplFromNarrowbandNoise, with channel
\* 'Odd Right' the Right column is made of all the odd harmonics of
\* lowHarm..highHarm and of nothing else and the Left column of all the
\* even ones; with 'Odd Left' it is the opposite.
C21_OddEvenRouting ==
    (/\ op \in {"complexTone", "harmComplFromNarrowbandNoise"}
     /\ Arg("channel") \in {"Odd Left", "Odd Right"}
     /\ Err(ret) = "none") =>
        \A col \in 1..2 :
            Column(Snd(ret), col)
              = IF op = "complexTone" THEN HarmonicsOfEar(col) ELSE BandsOfEar(col)

\* complexTone was asked for harmonics 1..MaxHarm with 'Odd Right' and
\* returned two sounding columns that differ.
C21_Witness ==
    /\ op = "complexTone"
    /\ Arg("channel") = "Odd Right"
    /\ Arg("lowHarm") = 1
    /\ Arg("highHarm") = MaxHarm
    /\ Err(ret) = "none"
    /\ ~IsZeroColumn(Snd(ret), 1)
    /\ ~IsZeroColumn(Snd(ret), 2)
    /\ Column(Snd(ret), 1) # Column(Snd(ret), 2)

----------------------------------------------------------------------------
(* Claims about makeAsynchChord.                                           *)

\* The tone of the component at list index c, as pureTone makes it.
ChordTone(c) ==
    Snd(pureTone(Arg("freqs")[c], Arg("phases")[c], Arg("levels")[c],
                 Arg("tonesDuration"), Arg("tonesRamps"), Arg("tonesChannel"),
                 Arg("fs"), Arg("maxLevel")))

\* The sample at which the component at position i (from 0) of the random
\* order starts: round(SOA*i/1000*fs).
ChordOnset(i) == Round(Arg("SOA") * i * Arg("fs"), 1000)

\* Row k of the Signal snd moved to start at sample onset: zero outside it.
RowFrom(snd, onset, k) ==
    IF onset < k /\ k <= onset + Len(snd) THEN snd[k - onset] ELSE <<0, 0>>

\* C22: for every random order over N >= 1 components and SOA >= 0, each
\* component is in the chord exactly once, the one at position i of the
\* order starting round(SOA*i/1000*fs) samples after the onset, and the
\* chord is as long as one tone plus round(SOA*(N-1)/1000*fs) samples.
C22_ChordLayout ==
    (/\ op = "makeAsynchChord"
     /\ Len(Arg("freqs")) >= 1
     /\ Arg("tonesChannel") \in LRB) =>
        LET N == Len(Arg("freqs"))
            seq == Arg("seq")
        IN  /\ Err(ret) = "none"
            /\ Len(Snd(ret)) = Len(ChordTone(1)) + ChordOnset(N - 1)
            /\ \A k \in 1..Len(Snd(ret)) : \A col \in 1..2 :
                   Snd(ret)[k][col]
                     = SumOver(1, N,
                           [i \in 1..N |->
                               RowFrom(ChordTone(seq[i]), ChordOnset(i - 1), k)[col]])

----------------------------------------------------------------------------
(* Claims about steepNoise.                                                *)

\* The total duration of the steepNoise call in milliseconds; the spacing
\* of the sinusoids is 1000/SteepTotMs hertz.
SteepTotMs == Arg("duration") + 2 * Arg("ramp")

\* C23: for frequency1 <= frequency2 the loop of steepNoise visits exactly
\* 1 + floor((frequency2 - frequency1)/spacing) frequencies, the number of
\* components its amplitude is scaled for, and each of them lies in
\* [frequency1, frequency2].
C23_ComponentCount ==
    (/\ op = "steepNoise"
     /\ Arg("frequency1") <= Arg("frequency2")
     /\ Err(ret) = "none") =>
        LET visited == steepNoiseLoopCount(Arg("frequency1"), Arg("frequency2"),
                                           SteepTotMs)
            bandwidth == Arg("frequency2") - Arg("frequency1")
        IN  /\ visited = 1 + (bandwidth * SteepTotMs) \div 1000
            /\ visited = steepNoiseComponents(Arg("frequency1"), Arg("frequency2"),
                                              SteepTotMs)
            /\ \A j \in 0..(visited - 1) :
                   /\ Arg("frequency1") * SteepTotMs
                        <= Arg("frequency1") * SteepTotMs + 1000 * j
                   /\ Arg("frequency1") * SteepTotMs + 1000 * j
                        <= Arg("frequency2") * SteepTotMs

----------------------------------------------------------------------------
(* Claims about makeHuggins.                                               *)

\* C24: makeHuggins returns a Signal of exactly round(duration/1000*fs)
\* + 2*round(ramp/1000*fs) rows for every duration and ramp.
C24_HugginsLength ==
    (op = "makeHuggins" /\ Err(ret) = "none") =>
        Len(Snd(ret)) = Round(Arg("duration") * Arg("fs"), 1000)
                          + 2 * Round(Arg("ramp") * Arg("fs"), 1000)

\* The rows of the noise makeHuggins hands to phaseShift.
HugginsRows == Round((Arg("duration") + 2 * Arg("ramp")) * Arg("fs"), 1000)

\* The regions of the call of makeHuggins.
HugginsCalled ==
    hugginsRegions(Arg("F0"), Arg("lowHarm"), Arg("highHarm"), Arg("bandwidth"),
                   Arg("phaseRelationship"), Arg("fs"))

\* A band 0 <= f1 <= f2 <= fs/2.
BandWithin(f1, f2, fs) == 0 <= f1 /\ f1 <= f2 /\ 2 * f2 <= fs

----------------------------------------------------------------------------
(* Claims about the bins of phaseShift.                                    *)

\* C28: for every non-empty signal and every band 0 <= f1 <= f2 <= fs/2
\* every bin index phaseShift reads or writes, start1..end1 and
\* fftPoints-end1..fftPoints-start1, lies in 0..fftPoints-1, so that no
\* call ends in an IndexError, the calls with f1 = 0 and the 'NpiSo' calls
\* of makeHuggins with f1 = 10 Hz on short signals included.
C28_BinsInRange ==
    /\ (/\ op = "phaseShift"
        /\ Arg("channel") \in {"Left", "Right", "Both"}
        /\ Len(Arg("sig")) > 0
        /\ BandWithin(Arg("f1"), Arg("f2"), Arg("fs")))
         => /\ \A b \in (ShiftStart..ShiftEnd)
                          \cup ((ShiftN - ShiftEnd)..(ShiftN - ShiftStart)) :
                    0 <= b /\ b <= ShiftN - 1
            /\ Err(ret) # "IndexError"
    /\ (/\ op = "makeHuggins"
        /\ Arg("phaseRelationship") = "NpiSo"
        /\ HugginsRows > 0
        /\ \A j \in 1..Len(HugginsCalled) :
               BandWithin(HugginsCalled[j][1], HugginsCalled[j][2], Arg("fs")))
         => Err(ret) # "IndexError"

----------------------------------------------------------------------------
(* Claims about the regions of makeHuggins.                                *)

\* The regions outside the harmonic bands of the call: from 10 Hz to the
\* lower edge of the band of lowHarm, the gaps between consecutive bands,
\* and from the upper edge of the band of highHarm to fs/2.
OutsideBands ==
    {<<10, (Arg("lowHarm") * Arg("F0")) - (Arg("bandwidth") \div 2)>>}
      \cup {<<((i - 1) * Arg("F0")) + (Arg("bandwidth") \div 2),
              (i * Arg("F0")) - (Arg("bandwidth") \div 2)>> :
                i \in (Arg("lowHarm") + 1)..Arg("highHarm")}
      \cup {<<(Arg("highHarm") * Arg("F0")) + (Arg("bandwidth") \div 2),
              Arg("fs") \div 2>>}

\* How many of the phaseShift calls of makeHuggins are for the region.
TimesShifted(region) ==
    Cardinality({j \in 1..Len(HugginsCalled) : HugginsCalled[j] = region})

\* C30: with 'NpiSo' makeHuggins shifts every region outside the harmonic
\* bands in the Left channel exactly once: 10 Hz to the lower edge of the
\* lowHarm band, each gap between consecutive bands, and the upper edge of
\* the highHarm band to fs/2.
C30_OutsideBandsShifted ==
    (op = "makeHuggins" /\ Arg("phaseRelationship") = "NpiSo") =>
        \A region \in OutsideBands : TimesShifted(region) = 1

----------------------------------------------------------------------------
(* Claims about makePinkRef.                                               *)

\* C29: makePinkRef(sig, fs, 1000) behaves like makePink(sig, fs): for
\* every number of rows n >= 2, odd or even, it ends normally and returns
\* n rows, those makePink returns, and for n < 2 it returns its input
\* unchanged.
C29_PinkRefLikePink ==
    (op = "makePinkRef" /\ Arg("refHz") = 1000) =>
        /\ Err(ret) = "none"
        /\ Len(Snd(ret)) = Len(Arg("sig"))
        /\ Snd(ret) = makePink(Arg("sig"), Arg("fs"))[2]
        /\ Len(Arg("sig")) < 2 => Snd(ret) = Arg("sig")

----------------------------------------------------------------------------
(* Claims about the workers of complexToneParallel.                        *)

\* The number of harmonics of the parallel call.
ParCount == ParArg("highHarm") - ParArg("lowHarm") + 1

\* The contribution of harmonic i: what its pureTone task returns.
ParResultOf(i) ==
    LET t == parallelTask(i, ParArg("F0"), ParArg("harmPhase"), ParArg("highHarm"),
                          ParArg("stretch"), ParArg("level"), ParArg("duration"),
                          ParArg("ramp"), ParArg("channel"), ParArg("fs"),
                          ParArg("maxLevel"), ParArg("rnd"))
    IN  Snd(pureTone(t[1], t[2], t[3], t[4], t[5], t[6], t[7], t[8]))

\* The contributions in harmonic-ascending order.
ParAscending == [j \in 1..ParCount |-> ParResultOf(ParArg("lowHarm") + j - 1)]

\* The empty sum the parallel call starts from.
ParZeros ==
    zeros(nTotOf(msToSamples(ParArg("duration"), ParArg("fs")),
                 msToSamples(ParArg("ramp"), ParArg("fs"))))

\* C26: the summation of the contributions starts only after every worker
\* task has completed and its result has been collected: while tasks are
\* out nothing has been added, past the join no task is left and tn holds
\* highHarm - lowHarm + 1 results, and in every interleaving the Signal
\* returned is the sum of exactly one contribution for each harmonic in
\* lowHarm..highHarm.
C26_Barrier ==
    /\ ppc = "submitted" => psnd = ParZeros
    /\ ppc = "joined" => queue = {} /\ Len(tn) = ParCount /\ psnd = ParZeros
    /\ (ppc = "done" /\ Err(ret) = "none") =>
          /\ queue = {}
          /\ Len(tn) = ParCount
          /\ Snd(ret) = sumResults(ParZeros, ParAscending)

\* A call of three harmonics has returned a sum that is not silence, its
\* tasks having finished in another order than they were submitted in.
C26_Witness ==
    /\ ppc = "done"
    /\ Err(ret) = "none"
    /\ ParCount = 3
    /\ tn[1] # ParResultOf(ParArg("lowHarm"))
    /\ \E k \in 1..Len(Snd(ret)) : Snd(ret)[k] # <<0, 0>>

\* C27: the contributions are added in harmonic-ascending order, lowHarm
\* first and highHarm last, in every run: the order of the list of the
\* collected results does not depend on the order the tasks finish in.
C27_AscendingOrder ==
    ppc = "joined" => tn = ParAscending

----------------------------------------------------------------------------
(* Claims about makeSimpleDichotic.                                        *)

\* A call of makeSimpleDichotic that returned a Signal.
DichoticReturned == op = "makeSimpleDichotic" /\ Err(ret) = "none"

\* The indices of the components of the noise of the call.
DichoticComponents ==
    0..((Log2Cents(Arg("highFreq"), Arg("lowFreq")) \div Arg("spacing")) - 1)

\* The selected subset: the indices in freqsToShift.
DichoticSelected ==
    LET freqsToShift ==
            dichoticFreqsToShift(Arg("lowHarm"), Arg("F0"), Arg("highHarm"),
                                 Arg("lowFreq"), Arg("spacing"),
                                 Cardinality(DichoticComponents),
                                 Arg("sigBandwidth"), Arg("phaseRelationship"))
    IN  {freqsToShift[j] : j \in 1..Len(freqsToShift)}

\* Sample k of component r with the amplitude a and the starting phase.
ComponentAt(r, k, a, phase) ==
    a * SinAt(pinkFreq(r, Arg("lowFreq"), Arg("spacing")), k - 1, Arg("fs"), phase)

\* Sample k of component r as the noise has it.
UnmodifiedAt(r, k) ==
    ComponentAt(r, k, AmpOfDb(Arg("cmpLevel") - Arg("maxLevel")),
                PhaseDraw(Arg("seed"), r))

\* Sample k of component r with the interaural difference of the call.
ModifiedAt(r, k) ==
    IF Arg("dichoticDifference") = "IPD"
    THEN ComponentAt(r, k, AmpOfDb(Arg("cmpLevel") - Arg("maxLevel")),
                     PhaseAdd(PhaseDraw(Arg("seed"), r), Arg("ipd")))
    ELSE IF Arg("dichoticDifference") = "ITD"
    THEN ComponentAt(r, k, AmpOfDb(Arg("cmpLevel") - Arg("maxLevel")),
                     PhaseAdd(PhaseDraw(Arg("seed"), r),
                              itdtoipd(Arg("itd"),
                                       pinkFreq(r, Arg("lowFreq"), Arg("spacing")))))
    ELSE ComponentAt(r, k, AmpOfDb(Arg("narrowBandCmpLevel") - Arg("maxLevel")),
                     PhaseDraw(Arg("seed"), r))

\* A column of sums of components, with the ramps of the call.
Ramped(col) ==
    Column(gate(Arg("ramp"), array([k \in 1..Len(col) |-> <<col[k], col[k]>>]),
                Arg("fs"))[2], 1)

\* The ear that hears every component unmodified.
ReferenceEar ==
    LET n == Cardinality(DichoticComponents)
    IN  Ramped(array([k \in 1..Len(Snd(ret)) |->
                   SumOver(0, n - 1, [r \in 0..(n - 1) |-> UnmodifiedAt(r, k)])]))

\* The ear that hears the selected components modified and the others as
\* the reference ear does.
ModifiedEar ==
    LET n == Cardinality(DichoticComponents)
        selected == DichoticSelected
    IN  Ramped(array([k \in 1..Len(Snd(ret)) |->
                   SumOver(0, n - 1, [r \in 0..(n - 1) |->
                       IF r \in selected THEN ModifiedAt(r, k)
                       ELSE UnmodifiedAt(r, k)])]))

\* C25: every component outside the selected subset has the same amplitude
\* and phase in both columns in all three modes; with 'IPD' or 'ITD' one
\* column is the sum of the unmodified components and only the other holds
\* the shifted subset; with 'Level' the two columns are identical at every
\* sample.
C25_SubsetInOneEar ==
    DichoticReturned =>
        IF Arg("dichoticDifference") \in {"IPD", "ITD"}
        THEN \E c \in {1, 2} :
                /\ Column(Snd(ret), c) = ReferenceEar
                /\ Column(Snd(ret), 3 - c) = ModifiedEar
        ELSE /\ Column(Snd(ret), 1) = Column(Snd(ret), 2)
             /\ Column(Snd(ret), 1) = ModifiedEar

\* An 'IPD' call returned, some components selected and some not, and the
\* two ears differ.
C25_Witness ==
    /\ DichoticReturned
    /\ Arg("dichoticDifference") = "IPD"
    /\ DichoticSelected # {}
    /\ DichoticSelected # DichoticComponents
    /\ Column(Snd(ret), 1) # Column(Snd(ret), 2)
====
